---- MODULE Spec2Model ----
(***************************************************************************)
(* Verification model of the route/VRF reconciler and the RIB/FIB engine.  *)
(*                                                                         *)
(*   Spec          RIB writers and the best-path processor (pkg/rib)       *)
(*   FairSpec      Spec with the processor job scheduled fairly            *)
(*   SpecCtor      one call of NewRouteExporter                            *)
(*   SpecVrf       the CiliumVRF watcher: VRF devices and rules            *)
(*   SpecSvc       the Service watcher: routes of load-balancer IPs        *)
(*   SpecFaults    the exporter on a kernel that refuses destinations      *)
(*   SpecSteps     test steps (a write with the FIB read before it)        *)
(*   SpecTables    the RIB/FIB table API with watch handles                *)
(*   SpecExporter  the route exporters against the kernel routing tables   *)
(*   SpecDistance  prefixSet.distance on bounded inputs                    *)
(***************************************************************************)
EXTENDS Integers, Sequences, FiniteSets, TLC

VARIABLES
    rib,        \* RIB table: set of Route rows
    fib,        \* FIB table: set of Route rows
    changes,    \* delete-tracker: rows changed since the processor's last snapshot
    iter,       \* changed rows of the snapshot dt.Iterate is walking
    pc,         \* processor position: "wait" | "iterate" | "write" | "returned"
    cur,        \* the changed row the callback is handling
    sel,        \* result of selectBest for cur
    nWrites,    \* number of committed table writes so far
    watch,      \* per owner: state of the handle returned by Get(RIBOwnerIndex, o)
    ret,        \* (old, hadOld) returned by the last Insert or Delete a caller kept
    snap,       \* what a test step read before its write: the FIB, and the write
    kroutes,    \* kernel routes
    klinks,     \* kernel links
    kreject,    \* destinations the kernel refuses to install
    cfg,        \* RouteExporter configuration
    podCIDRSyncerLastError,
    lbIPSyncerLastError,
    lastPass,   \* the exporter call that ran last: its input, desired set, error and kernel writes
    nEvents,    \* number of exporter events handled so far
    ctor,       \* input and result of one NewRouteExporter call
    krules,     \* kernel policy routing rules
    cvrfs,      \* the CiliumVRF objects the lister returns
    handlers,   \* per event handler: its position in reconcileVrfs and its locals
    mutex,      \* the package-level mutex: 0 when free, else the handler holding it
    everDesired, \* names that were in desiredVrfs of some pass
    lastVrf,    \* the reconcileVrfs pass that wrote last: what it read and the
                \* rules it passed to RuleAdd and RuleDel
    nVrfOps,    \* number of CiliumVRF events and passes so far
    services,   \* the Services that exist (K8sSvcCache)
    lastSvc,    \* the Service event handled last and the error of its handler
    nSvcEvents, \* number of Service events handled so far
    dist,       \* input and output of one prefixSet.distance call
    ctx,        \* the context of the processor job: "live" | "done"
    health,     \* what the processor reported last to its HealthReporter
    fibTxn,     \* the FIB write transaction of the callback: "none" | "open"
    fibreject,  \* routes whose FIB Insert or Delete returns an error
    fibWatch,   \* the handle a reader took with FIB.All(), and the FIB it read
    pk          \* input and output of one comparison of Prefix keys

vars == <<rib, fib, changes, iter, pc, cur, sel, nWrites, watch, ret, snap,
          kroutes, klinks, kreject, cfg, podCIDRSyncerLastError,
          lbIPSyncerLastError, lastPass, nEvents, ctor, krules, cvrfs,
          handlers, mutex, everDesired, lastVrf, nVrfOps, services, lastSvc,
          nSvcEvents, dist, ctx, health, fibTxn, fibreject, fibWatch, pk>>

(***************************************************************************)
(* Bounds                                                                  *)
(***************************************************************************)
MaxWrites == 3
MaxLiveWrites == 2
MaxTableOps == 3
MaxEvents == 2
MaxSteps == 3
MaxVrfOps == 4
MaxSvcEvents == 3

\* unix.RTPROT_STATIC
RTPROT_STATIC == 4

\* the priority of every rule of the VRF reconciler
RulePriority == 999

(***************************************************************************)
(* pkg/rib/tables: Prefix, Protocol, Route                                 *)
(***************************************************************************)
prefixKindIPv4 == 1
prefixKindIPv6 == 2

\* netip.Prefix inside IPv4Prefix: the address as given (a tuple of bits, two
\* here for the four bytes) and the prefix length.
PfxShort == [type |-> "IPv4Prefix", addr |-> <<1, 0>>, bits |-> 1]
PfxLong == [type |-> "IPv4Prefix", addr |-> <<1, 0>>, bits |-> 2]
Prefixes == {PfxShort, PfxLong, [type |-> "IPv4Prefix", addr |-> <<1, 1>>, bits |-> 2]}

\* IPv4Prefix.Key / IPv6Prefix.Key: the kind byte, then the bytes of p.Addr().
PrefixKey(p) ==
    IF p.type = "IPv4Prefix"
    THEN <<prefixKindIPv4>> \o p.addr
    ELSE <<prefixKindIPv6>> \o p.addr

adminDistanceKubernetes == 1
adminDistanceEBGP == 20
adminDistanceIBGP == 200

AdminDistance(proto) ==
    CASE proto = "ProtocolKubernetes" -> adminDistanceKubernetes
      [] proto = "ProtocolEBGP" -> adminDistanceEBGP
      [] proto = "ProtocolIBGP" -> adminDistanceIBGP

Owners == {"ownerA", "ownerB"}

Route == [Prefix : Prefixes, NextHop : {[kind |-> "NextHopIPv4", addr |-> 1]}, Protocol : {"ProtocolKubernetes", "ProtocolEBGP", "ProtocolIBGP"}, Owner : Owners]

NoRoute == [Prefix |-> "none"]

\* Route.RouteID
RouteID(rt) == [Prefix |-> rt.Prefix, Owner |-> rt.Owner]

\* RouteID.Key that leaves the owner out.
RouteIDKeyNoOwner(id) == PrefixKey(id.Prefix)

\* RouteID.Key: append(r.Prefix.Key(), []byte(r.Owner)...)
RouteIDKey(id) == PrefixKey(id.Prefix) \o <<id.Owner>>

\* RIBIDIndex.FromObject
RIBIDIndexKey(rt) == RouteIDKey(RouteID(rt))

\* An owner index that keys every row alike.
RIBOwnerIndexKeyConst(owner) == <<"">>

\* RIBOwnerIndex.FromObject and FromKey: index.String(owner)
RIBOwnerIndexKey(owner) == <<owner>>

\* RIBPrefixIndex.FromObject and FromKey
RIBPrefixIndexKey(p) == PrefixKey(p)

\* A FIB primary key that is the RIB's: prefix and owner.
FIBIDIndexKeyWithOwner(rt) == RouteIDKey(RouteID(rt))

\* FIBIDIndex.FromObject
FIBIDIndexKey(rt) == PrefixKey(rt.Prefix)

(***************************************************************************)
(* statedb tables: a table is the set of its rows; Insert upserts by the   *)
(* primary key, Delete removes by the primary key, Get collects the rows   *)
(* whose index key equals the query key.                                   *)
(***************************************************************************)
\* The rows with the primary key of rt, in the RIB and in the FIB.
RIBLookup(tbl, rt) == {r \in tbl : RIBIDIndexKey(r) = RIBIDIndexKey(rt)}
FIBLookup(tbl, rt) == {r \in tbl : FIBIDIndexKey(r) = FIBIDIndexKey(rt)}

FIBInsertRow(tbl, rt) == (tbl \ FIBLookup(tbl, rt)) \cup {rt}
FIBDeleteRow(tbl, rt) == tbl \ FIBLookup(tbl, rt)

\* What Insert and Delete return: the row that was there, and whether one was.
TableOld(rows) ==
    IF rows # {}
    THEN [old |-> CHOOSE r \in rows : TRUE, hadOld |-> TRUE]
    ELSE [old |-> NoRoute, hadOld |-> FALSE]

\* Get(RIBPrefixIndex.Query(p))

\* A Get that returns every row of the table.
GetAllRows(tbl, o) == tbl

\* Get(RIBOwnerIndex.Query(o))
GetByOwner(tbl, o) == {r \in tbl : RIBOwnerIndexKey(r.Owner) = RIBOwnerIndexKey(o)}

\* The delete tracker keeps, per primary key, the last change made to it
\* since the reader's snapshot: the row as inserted, or the row as deleted.
TrackChange(chg, rt, deleted) ==
    {c \in chg : RIBIDIndexKey(c.rt) # RIBIDIndexKey(rt)}
        \cup {[rt |-> rt, deleted |-> deleted]}

\* A committed write that signals no handle.
WatchUnsignaled(w, rt) == w

\* A committed write signals the open handle of Get(RIBOwnerIndex, o) when
\* it touches a row indexed under the query's key.
WatchAfterWrite(w, rt) ==
    [o \in Owners |->
        IF w[o] = "open" /\ RIBOwnerIndexKey(rt.Owner) = RIBOwnerIndexKey(o)
        THEN "fired" ELSE w[o]]

(***************************************************************************)
(* pkg/rib/processor.go                                                    *)
(***************************************************************************)

\* statedb.Collect over an index iterator: rows in the order of the index
\* key followed by the primary key; here all rows share the prefix key, so
\* they are ordered by owner.
RECURSIVE CollectFrom(_, _)
CollectFrom(rows, i) ==
    IF i > Len(<<"ownerA", "ownerB">>) THEN <<>>
    ELSE LET here == {r \in rows : r.Owner = <<"ownerA", "ownerB">>[i]}
         IN  (IF here = {} THEN <<>> ELSE <<CHOOSE r \in here : TRUE>>)
                 \o CollectFrom(rows, i + 1)


\* The comparison function selectBest hands to slices.MinFunc.
\* CmpDistance with the comparison turned round: the worst path wins.
CmpDistanceReversed(rt1, rt2) ==
    LET d1 == AdminDistance(rt1.Protocol)
        d2 == AdminDistance(rt2.Protocol)
    IN  IF d1 > d2 THEN -1 ELSE IF d1 < d2 THEN 1 ELSE 0

CmpDistance(rt1, rt2) ==
    LET d1 == AdminDistance(rt1.Protocol)
        d2 == AdminDistance(rt2.Protocol)
    IN  IF d1 < d2 THEN -1 ELSE IF d1 > d2 THEN 1 ELSE 0

\* slices.MinFunc: the first minimal element.
RECURSIVE MinFuncFrom(_, _, _)
MinFuncFrom(rts, i, m) ==
    IF i > Len(rts) THEN m
    ELSE MinFuncFrom(rts, i + 1, IF CmpDistance(rts[i], m) < 0 THEN rts[i] ELSE m)

MinFunc(rts) == MinFuncFrom(rts, 2, rts[1])

\* A selectBest in which the changed row wins a tie of distances.
selectBestChangedFirst(tbl, rt) ==
    LET rts == CollectFrom({r \in tbl : RIBPrefixIndexKey(r.Prefix)
                                            = RIBPrefixIndexKey(rt.Prefix)}, 1)
    IN  IF Len(rts) = 0
        THEN [found |-> FALSE, best |-> NoRoute]
        ELSE IF rt \in tbl /\ CmpDistance(rt, MinFunc(rts)) = 0
        THEN [found |-> TRUE, best |-> rt]
        ELSE [found |-> TRUE, best |-> MinFunc(rts)]

\* processor.selectBest, on the RIB as a fresh read transaction sees it.
selectBest(tbl, rt) ==
    LET rts == CollectFrom({r \in tbl : RIBPrefixIndexKey(r.Prefix)
                                            = RIBPrefixIndexKey(rt.Prefix)}, 1)
    IN  IF Len(rts) = 0
        THEN [found |-> FALSE, best |-> NoRoute]
        ELSE [found |-> TRUE, best |-> MinFunc(rts)]

\* FIBWrite without the delete branch: a withdrawn prefix keeps its entry.
FIBWriteNoDelete(tbl, s, rt) ==
    IF s.found THEN FIBInsertRow(tbl, s.best) ELSE tbl

\* The FIB write of the Iterate callback: promote the best path, or delete
\* the entry of the changed row when no route is left.
FIBWrite(tbl, s, rt) ==
    IF s.found THEN FIBInsertRow(tbl, s.best) ELSE FIBDeleteRow(tbl, rt)

NoChange == [rt |-> NoRoute, deleted |-> FALSE]
NoSel == [found |-> FALSE, best |-> NoRoute]

\* A committed RIB write transaction inserting rt.
InsertCommit(rt) ==
    /\ rib' = (rib \ RIBLookup(rib, rt)) \cup {rt}
    /\ changes' = TrackChange(changes, rt, FALSE)
    /\ watch' = WatchAfterWrite(watch, rt)
    /\ nWrites' = nWrites + 1
    /\ UNCHANGED <<fib, iter, pc, cur, sel, <<kroutes, klinks, kreject, cfg, podCIDRSyncerLastError, lbIPSyncerLastError, lastPass, nEvents, ctor, <<krules, cvrfs, handlers, mutex, everDesired, lastVrf, nVrfOps>>, <<services, lastSvc, nSvcEvents>>>>, dist, ctx, health, fibTxn, fibreject, fibWatch, pk>>

\* A committed RIB write transaction deleting the row with rt's primary key.
\* Deleting a row that is not there changes nothing.
DeleteCommit(rt) ==
    /\ RIBLookup(rib, rt) # {}
    /\ LET old == CHOOSE r \in rib : RIBIDIndexKey(r) = RIBIDIndexKey(rt)
       IN  /\ rib' = rib \ RIBLookup(rib, rt)
           /\ changes' = TrackChange(changes, old, TRUE)
           /\ watch' = WatchAfterWrite(watch, old)
    /\ nWrites' = nWrites + 1
    /\ UNCHANGED <<fib, iter, pc, cur, sel, <<kroutes, klinks, kreject, cfg, podCIDRSyncerLastError, lbIPSyncerLastError, lastPass, nEvents, ctor, <<krules, cvrfs, handlers, mutex, everDesired, lastVrf, nVrfOps>>, <<services, lastSvc, nSvcEvents>>>>, dist, ctx, health, fibTxn, fibreject, fibWatch, pk>>

\* The writers of Spec do not keep what Insert and Delete return.
RIBInsert(rt) == nWrites < MaxWrites /\ InsertCommit(rt) /\ UNCHANGED <<ret, snap>>
RIBDelete(rt) == nWrites < MaxWrites /\ DeleteCommit(rt) /\ UNCHANGED <<ret, snap>>

\* The watch returned by dt.Iterate fires: take a new read transaction and
\* start iterating the rows changed since the previous one.
ProcWake ==
    /\ pc = "wait"
    /\ changes # {}
    /\ iter' = changes
    /\ changes' = {}
    /\ pc' = "iterate"
    /\ UNCHANGED <<rib, fib, cur, sel, nWrites, watch, ret, snap, <<kroutes, klinks, kreject, cfg, podCIDRSyncerLastError, lbIPSyncerLastError, lastPass, nEvents, ctor, <<krules, cvrfs, handlers, mutex, everDesired, lastVrf, nVrfOps>>, <<services, lastSvc, nSvcEvents>>>>, dist, ctx, health, fibTxn, fibreject, fibWatch, pk>>

\* The callback's first half for one changed row: selectBest.
ProcSelect ==
    /\ pc = "iterate"
    /\ \E c \in iter :
        /\ cur' = c
        /\ sel' = selectBest(rib, c.rt)
    /\ pc' = "write"
    /\ UNCHANGED <<rib, fib, changes, iter, nWrites, watch, ret, snap, <<kroutes, klinks, kreject, cfg, podCIDRSyncerLastError, lbIPSyncerLastError, lastPass, nEvents, ctor, <<krules, cvrfs, handlers, mutex, everDesired, lastVrf, nVrfOps>>, <<services, lastSvc, nSvcEvents>>>>, dist, ctx, health, fibTxn, fibreject, fibWatch, pk>>

\* The error of fib.Insert or fib.Delete: statedb refuses the routes in
\* rejected and leaves the table as it was.
FIBWriteErr(rejected, s, rt) ==
    IF (IF s.found THEN s.best ELSE rt) \in rejected THEN "error" ELSE "nil"

\* A watch of FIB.All() that is signaled only when the rows of the FIB
\* change.
FIBWatchAfterChange(w, tbl, s, rt) ==
    IF w.st = "open" /\ FIBWrite(tbl, s, rt) # tbl
    THEN [w EXCEPT !.st = "fired"] ELSE w

\* A committed FIB write signals the open handle of FIB.All(): an Insert
\* always, a Delete when it removed a row.
FIBWatchAfterWrite(w, tbl, s, rt) ==
    IF w.st = "open" /\ (s.found \/ FIBLookup(tbl, rt) # {})
    THEN [w EXCEPT !.st = "fired"] ELSE w

\* A callback that returns on the error of the FIB write: no Commit, no
\* health report.
ProcWriteReturnOnError ==
    /\ pc = "write"
    /\ fibTxn = "none"
    /\ LET err == FIBWriteErr(fibreject, sel, cur.rt)
       IN /\ fib' = IF err = "nil" THEN FIBWrite(fib, sel, cur.rt) ELSE fib
          /\ fibWatch' = IF err = "nil"
                         THEN FIBWatchAfterWrite(fibWatch, fib, sel, cur.rt)
                         ELSE fibWatch
          /\ health' = IF err # "nil" THEN health ELSE [level |-> "OK", err |-> "nil"]
          /\ fibTxn' = IF err # "nil" THEN "open" ELSE "none"
    /\ iter' = iter \ {cur}
    /\ pc' = IF iter' = {} THEN "wait" ELSE "iterate"
    /\ cur' = NoChange
    /\ sel' = NoSel
    /\ UNCHANGED <<rib, changes, nWrites, watch, ret, snap, <<kroutes, klinks, kreject, cfg, podCIDRSyncerLastError, lbIPSyncerLastError, lastPass, nEvents, ctor, <<krules, cvrfs, handlers, mutex, everDesired, lastVrf, nVrfOps>>, <<services, lastSvc, nSvcEvents>>>>, dist, ctx, fibreject, pk>>

\* The callback's second half: the FIB write transaction from WriteTxn to
\* Commit, and the health report.
ProcWrite ==
    /\ pc = "write"
    /\ fibTxn = "none"
    /\ LET err == FIBWriteErr(fibreject, sel, cur.rt)
       IN /\ fib' = IF err = "nil" THEN FIBWrite(fib, sel, cur.rt) ELSE fib
          /\ fibWatch' = IF err = "nil"
                         THEN FIBWatchAfterWrite(fibWatch, fib, sel, cur.rt)
                         ELSE fibWatch
          /\ health' = IF err # "nil"
                       THEN [level |-> "Degraded", err |-> err]
                       ELSE [level |-> "OK", err |-> "nil"]
    /\ fibTxn' = "none"
    /\ iter' = iter \ {cur}
    /\ pc' = IF iter' = {} THEN "wait" ELSE "iterate"
    /\ cur' = NoChange
    /\ sel' = NoSel
    /\ UNCHANGED <<rib, changes, nWrites, watch, ret, snap, <<kroutes, klinks, kreject, cfg, podCIDRSyncerLastError, lbIPSyncerLastError, lastPass, nEvents, ctor, <<krules, cvrfs, handlers, mutex, everDesired, lastVrf, nVrfOps>>, <<services, lastSvc, nSvcEvents>>>>, dist, ctx, fibreject, pk>>

\* A select that looks at ctx.Done() only when the watch has fired.
ProcReturnOnWatch ==
    /\ pc = "wait"
    /\ ctx = "done"
    /\ changes # {}
    /\ pc' = "returned"
    /\ UNCHANGED <<rib, fib, changes, iter, cur, sel, nWrites, watch, ret, snap, <<kroutes, klinks, kreject, cfg, podCIDRSyncerLastError, lbIPSyncerLastError, lastPass, nEvents, ctor, <<krules, cvrfs, handlers, mutex, everDesired, lastVrf, nVrfOps>>, <<services, lastSvc, nSvcEvents>>>>, dist, ctx, health, fibTxn, fibreject, fibWatch, pk>>

\* The select after Iterate takes the case of ctx.Done(): the job returns.
ProcReturn ==
    /\ pc = "wait"
    /\ ctx = "done"
    /\ pc' = "returned"
    /\ UNCHANGED <<rib, fib, changes, iter, cur, sel, nWrites, watch, ret, snap, <<kroutes, klinks, kreject, cfg, podCIDRSyncerLastError, lbIPSyncerLastError, lastPass, nEvents, ctor, <<krules, cvrfs, handlers, mutex, everDesired, lastVrf, nVrfOps>>, <<services, lastSvc, nSvcEvents>>>>, dist, ctx, health, fibTxn, fibreject, fibWatch, pk>>

\* The lifecycle stops the job group: the context of the job is cancelled.
Cancel ==
    /\ ctx = "live"
    /\ ctx' = "done"
    /\ UNCHANGED <<rib, fib, changes, iter, pc, cur, sel, nWrites, watch, ret, snap, <<kroutes, klinks, kreject, cfg, podCIDRSyncerLastError, lbIPSyncerLastError, lastPass, nEvents, ctor, <<krules, cvrfs, handlers, mutex, everDesired, lastVrf, nVrfOps>>, <<services, lastSvc, nSvcEvents>>>>, dist, health, fibTxn, fibreject, fibWatch, pk>>

\* fib.All(ReadTxn): the reader keeps the watch handle and the rows it read.
WatchFIB ==
    /\ fibWatch.st # "open"
    /\ fibWatch' = [st |-> "open", fib |-> fib]
    /\ UNCHANGED <<rib, fib, changes, iter, pc, cur, sel, nWrites, watch, ret, snap, <<kroutes, klinks, kreject, cfg, podCIDRSyncerLastError, lbIPSyncerLastError, lastPass, nEvents, ctor, <<krules, cvrfs, handlers, mutex, everDesired, lastVrf, nVrfOps>>, <<services, lastSvc, nSvcEvents>>>>, dist, ctx, health, fibTxn, fibreject, pk>>

Processor == ProcWake \/ ProcSelect \/ ProcWrite

(***************************************************************************)
(* CIDR strings and networks.  A CIDR string is its family, the address    *)
(* bits it spells and the length after the slash; a net.IPNet is an        *)
(* address and a mask.                                                     *)
(***************************************************************************)

\* ""
EmptyText == [fam |-> "", ip |-> <<>>, len |-> 0]
\* a canonical IPv4 CIDR, such as "10.0.0.0/24"
TxtA == [fam |-> "FAMILY_V4", ip |-> <<1, 0>>, len |-> 1]
\* the same network spelled with host bits, such as "10.0.0.1/24"
TxtAHost == [fam |-> "FAMILY_V4", ip |-> <<1, 1>>, len |-> 1]
\* a canonical IPv6 CIDR
Txt6 == [fam |-> "FAMILY_V6", ip |-> <<1, 0>>, len |-> 1]

\* net.CIDRMask(len, n)
CIDRMask(len, n) == [i \in 1..n |-> IF i <= len THEN 1 ELSE 0]

\* IP.Mask(mask)
IPMask(ip, mask) == [i \in 1..Len(ip) |-> ip[i] * mask[i]]

\* net.ParseCIDR(s): the network of s, its host bits cleared; an error on "",
\* on a text without an address and on a length the family does not have.
ParseCIDR(text) ==
    IF text = EmptyText \/ text.fam \notin {"FAMILY_V4", "FAMILY_V6"} \/ text.len > Len(text.ip)
    THEN [err |-> "ParseError", net |-> [fam |-> "", IP |-> <<>>, Mask |-> <<>>]]
    ELSE LET m == CIDRMask(text.len, Len(text.ip))
         IN [err |-> "nil",
             net |-> [fam |-> text.fam, IP |-> IPMask(text.ip, m), Mask |-> m]]

\* IPMask.Size: the number of leading ones
RECURSIVE MaskSize(_, _)
MaskSize(mask, i) ==
    IF i > Len(mask) \/ mask[i] = 0 THEN i - 1 ELSE MaskSize(mask, i + 1)

\* IPNet.String(): address, slash, mask length
IPNetString(n) == [fam |-> n.fam, ip |-> n.IP, len |-> MaskSize(n.Mask, 1)]

NetA == ParseCIDR(TxtA).net
\* a host prefix, as the LB exporter emits
NetVIP == [fam |-> "FAMILY_V4", IP |-> <<1, 1>>, Mask |-> <<1, 1>>]

(***************************************************************************)
(* The kernel behind netlink: links and routes.                            *)
(***************************************************************************)
\* A route without destination (a default route) of family fam.
NilDst(fam) == [fam |-> fam, IP |-> <<>>, Mask |-> <<>>]

\* netlink.Route as reconcileRoutes and updateKernelRoutes fill it in
NewRoute(idx, dst, table, proto) ==
    [LinkIndex |-> idx, Dst |-> dst, Table |-> table, Protocol |-> proto]

\* netlink.RouteListFiltered(af, filter, RT_FILTER_TABLE | RT_FILTER_PROTOCOL)
RouteListFiltered(k, af, table, proto) ==
    {r \in k : r.Dst.fam = af /\ r.Table = table /\ r.Protocol = proto}

\* netlink.RouteReplace: replace-or-insert by (table, protocol, dst)
RouteReplace(k, route) ==
    {r \in k : ~(r.Table = route.Table /\ r.Protocol = route.Protocol
                 /\ r.Dst = route.Dst)} \cup {route}

\* The error of netlink.RouteReplace: the kernel refuses the destinations in
\* rejected and installs every other route.
RouteReplaceErr(rejected, route) ==
    IF route.Dst \in rejected THEN "EINVAL" ELSE "nil"

\* netlink.RouteDel: deletes the matching tuple; ESRCH when there is none
RouteDel(k, route) ==
    IF route \in k
    THEN [k |-> k \ {route}, err |-> "nil"]
    ELSE [k |-> k, err |-> "ESRCH"]

\* netlink.LinkByName
LinkByName(links, name) == {l \in links : l.Name = name}

\* netlink.LinkAdd(&netlink.Vrf{Name, Table}): a new device, down, with an
\* index no link has
LinkAdd(links, name, table) ==
    LET idx == {l.Index : l \in links}
        top == IF links = {} THEN 0 ELSE CHOOSE i \in idx : \A j \in idx : j <= i
    IN links \cup {[Name |-> name, Index |-> top + 1,
                    Table |-> table, OperState |-> "down"]}

\* link.(*netlink.Vrf): only a VRF device has a table
IsVrf(l) == l.Table # 0

\* netlink.LinkSetUp
LinkSetUp(links, l) == (links \ {l}) \cup {[l EXCEPT !.OperState = "up"]}

\* reconcileVrf: the device by name, created if missing, brought up if down
reconcileVrf(links, vrfName, tableID) ==
    LET added == IF LinkByName(links, vrfName) = {}
                 THEN LinkAdd(links, vrfName, tableID) ELSE links
        vrf == CHOOSE l \in LinkByName(added, vrfName) : TRUE
    IN IF vrf.OperState # "up"
       THEN [links |-> LinkSetUp(added, vrf), Index |-> vrf.Index, err |-> "nil"]
       ELSE [links |-> added, Index |-> vrf.Index, err |-> "nil"]

\* A getOrCreateVrf that calls LinkAdd whether or not the name is taken; the
\* device it returns is the newest of the name.
getOrCreateVrfAlwaysAdd(links, vrfName, tableID) ==
    LET added == LinkAdd(links, vrfName, tableID)
        vrf == CHOOSE l \in LinkByName(added, vrfName) :
                  \A o \in LinkByName(added, vrfName) : o.Index <= l.Index
    IN [links |-> LinkSetUp(added, vrf), Index |-> vrf.Index, err |-> "nil"]

\* getOrCreateVrf
getOrCreateVrf(links, vrfName, tableID) ==
    LET added == IF LinkByName(links, vrfName) = {}
                 THEN LinkAdd(links, vrfName, tableID) ELSE links
        vrf == CHOOSE l \in LinkByName(added, vrfName) : TRUE
    IN IF vrf.OperState # "up"
       THEN [links |-> LinkSetUp(added, vrf), Index |-> vrf.Index, err |-> "nil"]
       ELSE [links |-> added, Index |-> vrf.Index, err |-> "nil"]

(***************************************************************************)
(* pkg/routeexporter: prefixSet                                            *)
(***************************************************************************)
add(ps, prefix) == ps \cup {prefix}

\* prefixSet.del that deletes nothing
delNothing(ps, prefix) == ps

del(ps, prefix) == ps \ {prefix}

\* prefixSet.exists that finds nothing
existsNever(ps, prefix) == FALSE

exists(ps, prefix) == prefix \in ps

dup(src) == {prefix \in src : TRUE}

\* the loop of distance over the prefixes of current not yet visited
RECURSIVE distanceLoop(_, _, _, _)
distanceLoop(desired, rest, addSet, deleteSet) ==
    IF rest = {}
    THEN [addSet |-> addSet, deleteSet |-> deleteSet]
    ELSE LET prefix == CHOOSE x \in rest : TRUE
         IN IF exists(desired, prefix)
            THEN distanceLoop(desired, rest \ {prefix}, del(addSet, prefix), deleteSet)
            ELSE distanceLoop(desired, rest \ {prefix}, addSet, add(deleteSet, prefix))

distance(desired, current) == distanceLoop(desired, current, dup(desired), {})

(***************************************************************************)
(* pkg/routeexporter: the pod-CIDR reconcile pass                          *)
(***************************************************************************)
Nodes ==
    {[PodCIDRs |-> l, PodCIDR |-> IF l = <<>> THEN c ELSE l[1]] :
        l \in {<<>>, <<TxtA>>, <<TxtAHost>>, <<Txt6>>, <<TxtA, Txt6>>}, c \in {EmptyText, TxtA}}

getPodCIDRsFromK8sNode(node) ==
    IF Len(node.PodCIDRs) # 0
    THEN {node.PodCIDRs[i] : i \in 1..Len(node.PodCIDRs)}
    ELSE add({}, node.PodCIDR)

\* getKernelRoutes with a filter on the table only.
getKernelRoutesAnyProtocol(k, tableID, protocolID, afs) ==
    UNION {{IPNetString(route.Dst) :
                route \in {r \in k : r.Dst.fam = afs[i] /\ r.Table = tableID
                                       /\ r.Dst # NilDst(r.Dst.fam)}} :
           i \in 1..Len(afs)}

getKernelRoutes(k, tableID, protocolID, afs) ==
    UNION {{IPNetString(route.Dst) :
                route \in {r \in RouteListFiltered(k, afs[i], tableID, protocolID) :
                              r.Dst # NilDst(r.Dst.fam)}} :
           i \in 1..Len(afs)}

\* The orders in which a range over a Go map may visit the set.
Orders(set) ==
    {f \in [1..Cardinality(set) -> set] :
        \A i, j \in 1..Cardinality(set) : f[i] = f[j] => i = j}

\* reconcileRoutes, first loop, from the i-th prefix of the order on
RECURSIVE replaceLoop(_, _, _, _, _, _)
replaceLoop(st, vrfIfindex, tableID, protocolID, order, i) ==
    IF i > Len(order)
    THEN st
    ELSE LET p == ParseCIDR(order[i])
             route == NewRoute(vrfIfindex, p.net, tableID, protocolID)
             e == RouteReplaceErr(st.rej, route)
             st2 == [st EXCEPT
                        !.calls = Append(@, [op |-> "RouteReplace", dst |-> p.net])]
         IN IF p.err # "nil"
            THEN [st EXCEPT !.err = p.err]
            ELSE IF e # "nil"
            THEN [st2 EXCEPT !.err = e]
            ELSE replaceLoop([st2 EXCEPT !.k = RouteReplace(@, route)],
                             vrfIfindex, tableID, protocolID, order, i + 1)

\* reconcileRoutes, second loop
RECURSIVE deleteLoop(_, _, _, _, _, _)
deleteLoop(st, vrfIfindex, tableID, protocolID, order, i) ==
    IF i > Len(order)
    THEN st
    ELSE LET p == ParseCIDR(order[i])
         IN IF p.err # "nil"
            THEN [st EXCEPT !.err = p.err]
            ELSE LET d == RouteDel(st.k, NewRoute(vrfIfindex, p.net, tableID, protocolID))
                     st2 == [st EXCEPT
                                !.k = d.k,
                                !.calls = Append(@, [op |-> "RouteDel", dst |-> p.net])]
                 IN IF d.err # "nil"
                    THEN [st2 EXCEPT !.err = d.err]
                    ELSE deleteLoop(st2, vrfIfindex, tableID, protocolID, order, i + 1)

reconcileRoutes(st, vrfIfindex, tableID, protocolID, addOrder, delOrder) ==
    LET a == replaceLoop(st, vrfIfindex, tableID, protocolID, addOrder, 1)
    IN IF a.err # "nil"
       THEN a
       ELSE deleteLoop(a, vrfIfindex, tableID, protocolID, delOrder, 1)

reconcileKernelRoutes(st, vrfName, tableID, protocolID, addOrder, delOrder) ==
    LET v == reconcileVrf(st.links, vrfName, tableID)
    IN IF v.err # "nil"
       THEN [st EXCEPT !.links = v.links, !.err = v.err]
       ELSE reconcileRoutes([st EXCEPT !.links = v.links], v.Index, tableID,
                            protocolID, addOrder, delOrder)

\* The kernel as a call finds it.
Kernel ==
    [links |-> klinks, k |-> kroutes, rej |-> kreject, err |-> "nil", calls |-> <<>>]

\* The handler of runPodCIDRSyncer on one node event.
PodCIDRNodeEvent(node) ==
    /\ nEvents < MaxEvents
    /\ LET podCIDRs == getPodCIDRsFromK8sNode(node)
           kernelRoutes == getKernelRoutes(kroutes, cfg.PodCIDRTableID,
                                           cfg.PodCIDRProtocolID, cfg.AddressFamilies)
           d == distance(podCIDRs, kernelRoutes)
       IN \E addOrder \in Orders(d.addSet), delOrder \in Orders(d.deleteSet) :
            LET r == reconcileKernelRoutes(Kernel, cfg.PodCIDRVrfName, cfg.PodCIDRTableID,
                                           cfg.PodCIDRProtocolID, addOrder, delOrder)
            IN /\ kroutes' = r.k
               /\ klinks' = r.links
               /\ podCIDRSyncerLastError' =
                     IF r.err # "nil" THEN r.err ELSE podCIDRSyncerLastError
               /\ lastPass' = [kind |-> "node", in |-> node, desired |-> podCIDRs,
                               err |-> r.err, calls |-> r.calls]
    /\ nEvents' = nEvents + 1
    /\ UNCHANGED <<cfg, kreject, ctor, lbIPSyncerLastError, <<krules, cvrfs, handlers, mutex, everDesired, lastVrf, nVrfOps>>, <<services, lastSvc, nSvcEvents>>, <<rib, fib, changes, iter, pc, cur, sel, nWrites, watch, ret, snap>>, dist, ctx, health, fibTxn, fibreject, fibWatch, pk>>

(***************************************************************************)
(* pkg/routeexporter: UpdateOrDeletePodCIDRRoutes, UpdateOrDeleteLBIPRoutes*)
(***************************************************************************)
\* []*cidr.CIDR arguments: parsed networks
PrefixLists == {<<>>, <<NetA>>, <<NetVIP, NetA>>}

\* The loop of updateKernelRoutes going on after a refused route.
RECURSIVE updateLoopSkip(_, _, _, _, _, _)
updateLoopSkip(st, idx, tableID, protocolID, prefixes, i) ==
    IF i > Len(prefixes)
    THEN st
    ELSE LET route == NewRoute(idx, prefixes[i], tableID, protocolID)
             e == RouteReplaceErr(st.rej, route)
             st2 == [st EXCEPT
                        !.calls = Append(@, [op |-> "RouteReplace", dst |-> prefixes[i]])]
         IN IF e # "nil"
            THEN updateLoopSkip([st2 EXCEPT !.err = e],
                                idx, tableID, protocolID, prefixes, i + 1)
            ELSE updateLoopSkip([st2 EXCEPT !.k = RouteReplace(@, route)],
                                idx, tableID, protocolID, prefixes, i + 1)

RECURSIVE updateLoop(_, _, _, _, _, _)
updateLoop(st, idx, tableID, protocolID, prefixes, i) ==
    IF i > Len(prefixes)
    THEN st
    ELSE LET route == NewRoute(idx, prefixes[i], tableID, protocolID)
             e == RouteReplaceErr(st.rej, route)
             st2 == [st EXCEPT
                        !.calls = Append(@, [op |-> "RouteReplace", dst |-> prefixes[i]])]
         IN IF e # "nil"
            THEN [st2 EXCEPT !.err = e]
            ELSE updateLoop([st2 EXCEPT !.k = RouteReplace(@, route)],
                            idx, tableID, protocolID, prefixes, i + 1)

updateKernelRoutes(st, vrfName, tableID, protocolID, prefixes) ==
    LET v == getOrCreateVrf(st.links, vrfName, tableID)
    IN IF v.err # "nil"
       THEN [st EXCEPT !.links = v.links, !.err = v.err]
       ELSE updateLoop([st EXCEPT !.links = v.links, !.err = "nil"], v.Index,
                       tableID, protocolID, prefixes, 1)

\* the loop of deleteKernelRoutes: only the errno EEXIST is passed over
RECURSIVE deleteKernelLoop(_, _, _, _, _, _)
deleteKernelLoop(st, idx, tableID, protocolID, prefixes, i) ==
    IF i > Len(prefixes)
    THEN st
    ELSE LET d == RouteDel(st.k, NewRoute(idx, prefixes[i], tableID, protocolID))
             st2 == [st EXCEPT
                        !.k = d.k,
                        !.calls = Append(@, [op |-> "RouteDel", dst |-> prefixes[i]])]
         IN IF d.err = "nil" \/ d.err = "EEXIST"
            THEN deleteKernelLoop(st2, idx, tableID, protocolID, prefixes, i + 1)
            ELSE [st2 EXCEPT !.err = d.err]

deleteKernelRoutes(st, vrfName, tableID, protocolID, prefixes) ==
    LET v == getOrCreateVrf(st.links, vrfName, tableID)
    IN IF v.err # "nil"
       THEN [st EXCEPT !.links = v.links, !.err = v.err]
       ELSE deleteKernelLoop([st EXCEPT !.links = v.links, !.err = "nil"], v.Index,
                             tableID, protocolID, prefixes, 1)

\* The partition UpdateOrDeletePodCIDRRoutes writes to.
PodCIDRPartition(c) ==
    [vrf |-> c.PodCIDRVrfName, table |-> c.PodCIDRTableID, proto |-> c.PodCIDRProtocolID]

\* UpdateOrDeleteLBIPRoutes passing the pod-CIDR table and protocol.
LBIPPartitionOfPodCIDR(c) ==
    [vrf |-> c.LBIPVrfName, table |-> c.PodCIDRTableID, proto |-> c.PodCIDRProtocolID]

\* The partition UpdateOrDeleteLBIPRoutes writes to.
LBIPPartition(c) ==
    [vrf |-> c.LBIPVrfName, table |-> c.LBIPTableID, proto |-> c.LBIPProtocolID]

\* update, then delete whether or not the update failed; the later error stays
UpdateOrDelete(part, updatedPrefixes, deletedPrefixes) ==
    LET u == updateKernelRoutes(Kernel, part.vrf, part.table, part.proto, updatedPrefixes)
        d == deleteKernelRoutes(u, part.vrf, part.table, part.proto, deletedPrefixes)
    IN [links |-> d.links, k |-> d.k, calls |-> d.calls,
        err |-> IF d.err # "nil" THEN d.err ELSE u.err]

\* An UpdateOrDeletePodCIDRRoutes that stores the error of the call whether
\* or not there is one.
UpdateOrDeletePodCIDRRoutesStoreNil(updatedPrefixes, deletedPrefixes) ==
    /\ nEvents < MaxEvents
    /\ LET r == UpdateOrDelete(PodCIDRPartition(cfg), updatedPrefixes, deletedPrefixes)
       IN /\ kroutes' = r.k
          /\ klinks' = r.links
          /\ podCIDRSyncerLastError' = r.err
          /\ lastPass' = [kind |-> "UpdateOrDeletePodCIDRRoutes",
                          in |-> <<updatedPrefixes, deletedPrefixes>>,
                          err |-> r.err, calls |-> r.calls]
    /\ nEvents' = nEvents + 1
    /\ UNCHANGED <<cfg, kreject, ctor, lbIPSyncerLastError, <<krules, cvrfs, handlers, mutex, everDesired, lastVrf, nVrfOps>>, <<services, lastSvc, nSvcEvents>>, <<rib, fib, changes, iter, pc, cur, sel, nWrites, watch, ret, snap>>, dist, ctx, health, fibTxn, fibreject, fibWatch, pk>>

UpdateOrDeletePodCIDRRoutes(updatedPrefixes, deletedPrefixes) ==
    /\ nEvents < MaxEvents
    /\ LET r == UpdateOrDelete(PodCIDRPartition(cfg), updatedPrefixes, deletedPrefixes)
       IN /\ kroutes' = r.k
          /\ klinks' = r.links
          /\ podCIDRSyncerLastError' =
                IF r.err # "nil" THEN r.err ELSE podCIDRSyncerLastError
          /\ lastPass' = [kind |-> "UpdateOrDeletePodCIDRRoutes",
                          in |-> <<updatedPrefixes, deletedPrefixes>>,
                          err |-> r.err, calls |-> r.calls]
    /\ nEvents' = nEvents + 1
    /\ UNCHANGED <<cfg, kreject, ctor, lbIPSyncerLastError, <<krules, cvrfs, handlers, mutex, everDesired, lastVrf, nVrfOps>>, <<services, lastSvc, nSvcEvents>>, <<rib, fib, changes, iter, pc, cur, sel, nWrites, watch, ret, snap>>, dist, ctx, health, fibTxn, fibreject, fibWatch, pk>>

UpdateOrDeleteLBIPRoutes(updatedPrefixes, deletedPrefixes) ==
    /\ nEvents < MaxEvents
    /\ LET r == UpdateOrDelete(LBIPPartition(cfg), updatedPrefixes, deletedPrefixes)
       IN /\ kroutes' = r.k
          /\ klinks' = r.links
          /\ lbIPSyncerLastError' =
                IF r.err # "nil" THEN r.err ELSE lbIPSyncerLastError
          /\ lastPass' = [kind |-> "UpdateOrDeleteLBIPRoutes",
                          in |-> <<updatedPrefixes, deletedPrefixes>>,
                          err |-> r.err, calls |-> r.calls]
    /\ nEvents' = nEvents + 1
    /\ UNCHANGED <<cfg, kreject, ctor, podCIDRSyncerLastError, <<krules, cvrfs, handlers, mutex, everDesired, lastVrf, nVrfOps>>, <<services, lastSvc, nSvcEvents>>, <<rib, fib, changes, iter, pc, cur, sel, nWrites, watch, ret, snap>>, dist, ctx, health, fibTxn, fibreject, fibWatch, pk>>

\* One call of desired.distance(current).
DistanceCall ==
    /\ ~dist.done
    /\ LET r == distance(dist.desired, dist.current)
       IN dist' = [dist EXCEPT !.addSet = r.addSet, !.deleteSet = r.deleteSet,
                               !.done = TRUE]
    /\ UNCHANGED <<<<rib, fib, changes, iter, pc, cur, sel, nWrites, watch, ret, snap>>, <<kroutes, klinks, kreject, cfg, podCIDRSyncerLastError, lbIPSyncerLastError, lastPass, nEvents, ctor, <<krules, cvrfs, handlers, mutex, everDesired, lastVrf, nVrfOps>>, <<services, lastSvc, nSvcEvents>>>>, ctx, health, fibTxn, fibreject, fibWatch, pk>>

\* One comparison of the keys of two prefixes: Key() of each.
KeyCall ==
    /\ ~pk.done
    /\ pk' = [pk EXCEPT !.ka = PrefixKey(pk.a), !.kb = PrefixKey(pk.b), !.done = TRUE]
    /\ UNCHANGED <<<<rib, fib, changes, iter, pc, cur, sel, nWrites, watch, ret, snap>>, <<kroutes, klinks, kreject, cfg, podCIDRSyncerLastError, lbIPSyncerLastError, lastPass, nEvents, ctor, <<krules, cvrfs, handlers, mutex, everDesired, lastVrf, nVrfOps>>, <<services, lastSvc, nSvcEvents>>>>, dist, ctx, health, fibTxn, fibreject, fibWatch>>

(***************************************************************************)
(* Initial states                                                          *)
(***************************************************************************)
NoCfg == [none |-> TRUE]
NoPass == [kind |-> "none", in |-> <<>>, err |-> "nil", calls |-> <<>>]
NoCtor == [in |-> NoCfg, done |-> FALSE, err |-> "nil"]

InitRIB ==
    /\ rib = {}
    /\ fib = {}
    /\ changes = {}
    /\ iter = {}
    /\ pc = "wait"
    /\ cur = NoChange
    /\ sel = NoSel
    /\ nWrites = 0
    /\ watch = [o \in Owners |-> "none"]
    /\ ret = [old |-> NoRoute, hadOld |-> FALSE]
    /\ snap = [op |-> "none", rt |-> NoRoute, fib |-> {}, quiet |-> FALSE]
    /\ ctx = "live"
    /\ health = [level |-> "none", err |-> "nil"]
    /\ fibTxn = "none"
    /\ fibreject = {}
    /\ fibWatch = [st |-> "none", fib |-> {}]

\* No CiliumVRF watcher.
Handlers == {1, 2}
NoLocals == [pc |-> "idle", cvrfs |-> {}, currentVrfs |-> {}]

\* No Service watcher.
IdleSvc ==
    /\ services = {}
    /\ lastSvc = [op |-> "none", svc |-> [name |-> "", ingress |-> <<>>], err |-> "nil"]
    /\ nSvcEvents = 0

IdleVrf ==
    /\ krules = {}
    /\ cvrfs = {}
    /\ handlers = [h \in Handlers |-> NoLocals]
    /\ mutex = 0
    /\ everDesired = {}
    /\ lastVrf = [h |-> 0, stage |-> "none", cvrfs |-> {}, currentVrfs |-> {}]
    /\ nVrfOps = 0

IdleExporter ==
    /\ kroutes = {}
    /\ klinks = {}
    /\ kreject = {}
    /\ cfg = NoCfg
    /\ podCIDRSyncerLastError = "nil"
    /\ lbIPSyncerLastError = "nil"
    /\ lastPass = NoPass
    /\ nEvents = 0
    /\ ctor = NoCtor
    /\ IdleVrf
    /\ IdleSvc

\* No call of distance and no comparison of Prefix keys.
IdleDistance == dist = [none |-> TRUE] /\ pk = [none |-> TRUE]

Init == InitRIB /\ IdleExporter /\ IdleDistance

\* Kernel states the exporter may start on: some device, the VRF of the
\* pod-CIDR concern there or not, up or down, and routes over existing devices.
Eth0 == [Name |-> "eth0", Index |-> 1, Table |-> 0, OperState |-> "up"]
Vrf0(state) == [Name |-> "vrf0", Index |-> 2, Table |-> 100, OperState |-> state]

InitExporter ==
    /\ InitRIB
    /\ IdleDistance
    /\ cfg \in {[PodCIDRVrfName |-> "vrf0", PodCIDRTableID |-> 100, PodCIDRProtocolID |-> 200, LBIPVrfName |-> lb.vrf, LBIPTableID |-> lb.table, LBIPProtocolID |-> lb.proto, AddressFamilies |-> afs] : lb \in {[vrf |-> "vrf0", table |-> 100, proto |-> 201], [vrf |-> "vrf1", table |-> 101, proto |-> 200], [vrf |-> "vrf0", table |-> 100, proto |-> 200]}, afs \in {<<"FAMILY_V4">>, <<"FAMILY_V4", "FAMILY_V6">>}}
    /\ klinks \in {{Eth0}, {Eth0, Vrf0("up")}, {Eth0, Vrf0("down")}}
    /\ kroutes \in SUBSET {r \in {NewRoute(2, NetA, 100, 200), NewRoute(2, NilDst("FAMILY_V4"), 100, 200), NewRoute(2, NetA, 100, 201), NewRoute(1, NetA, 101, 200), NewRoute(1, NetVIP, 100, 200)} : \E l \in klinks : l.Index = r.LinkIndex}
    /\ kreject = {}
    /\ podCIDRSyncerLastError = "nil"
    /\ lbIPSyncerLastError = "nil"
    /\ lastPass = NoPass
    /\ nEvents = 0
    /\ ctor = NoCtor
    /\ IdleVrf
    /\ IdleSvc

NextExporter ==
    \/ \E node \in Nodes : PodCIDRNodeEvent(node)
    \/ \E u, d \in PrefixLists : UpdateOrDeletePodCIDRRoutes(u, d)
    \/ \E u, d \in PrefixLists : UpdateOrDeleteLBIPRoutes(u, d)

SpecExporter == InitExporter /\ [][NextExporter]_vars

(***************************************************************************)
(* NewRouteExporter: the three constructors of the source, each on its     *)
(* own configuration type.  A configuration with one VrfName and TableID   *)
(* is written with the pod-CIDR fields; both concerns use them.            *)
(***************************************************************************)
validateProtocolID(protocolID) ==
    IF protocolID = 0 THEN "no protocol ID specified"
    ELSE IF protocolID < RTPROT_STATIC THEN "protocol IDs are reserved for kernel internal use"
    ELSE "nil"

\* exporter.go, RouteExporterConfig
NewRouteExporterConfig(rec) ==
    IF rec.PodCIDRVrfName = "" THEN "no VRF name specified"
    ELSE IF rec.PodCIDRTableID = 0 THEN "no table ID specified"
    ELSE IF rec.ExportPodCIDR /\ validateProtocolID(rec.PodCIDRProtocolID) # "nil"
    THEN "invalid protocol ID specified for PodCIDR"
    ELSE IF rec.ExportLBIP /\ validateProtocolID(rec.PodCIDRProtocolID) # "nil"
    THEN "invalid protocol ID specified for LB IP"
    ELSE "nil"

\* exporter.go, RouteExporterOptions
NewRouteExporterOptions(opts) ==
    IF opts.ExportPodCIDR /\ opts.PodCIDRVrfName = ""
    THEN "no VRF name specified for PodCIDR"
    ELSE IF opts.ExportPodCIDR /\ opts.PodCIDRTableID = 0
    THEN "no table ID specified for PodCIDR"
    ELSE IF opts.ExportPodCIDR /\ validateProtocolID(opts.PodCIDRProtocolID) # "nil"
    THEN "invalid protocol ID specified for PodCIDR"
    ELSE IF opts.ExportLBIP /\ opts.LBIPVrfName = ""
    THEN "no VRF name specified for LBIP"
    ELSE IF opts.ExportLBIP /\ opts.LBIPTableID = 0
    THEN "no table ID specified for LBIP"
    ELSE IF opts.ExportLBIP /\ validateProtocolID(opts.LBIPProtocolID) # "nil"
    THEN "invalid protocol ID specified for LBIP"
    ELSE "nil"

\* the constructor next to the pod-CIDR syncer, RouteExporterConfig with
\* AddressFamilies
NewRouteExporterPodCIDR(rec) ==
    IF rec.PodCIDRVrfName = "" THEN "no VRF name specified"
    ELSE IF rec.PodCIDRTableID = 0 THEN "no table ID specified"
    ELSE IF rec.ExportPodCIDR /\ rec.PodCIDRProtocolID = 0
    THEN "no protocol ID specified for PodCIDR"
    ELSE IF rec.ExportPodCIDR /\ rec.PodCIDRProtocolID < RTPROT_STATIC
    THEN "protocol IDs are reserved for kernel internal use"
    ELSE "nil"

NewRouteExporter(in) ==
    IF in.type = "RouteExporterOptions" THEN NewRouteExporterOptions(in)
    ELSE IF in.type = "RouteExporterConfig" THEN NewRouteExporterConfig(in)
    ELSE NewRouteExporterPodCIDR(in)

InitCtor ==
    /\ InitRIB
    /\ IdleDistance
    /\ ctor \in {[in |-> in, done |-> FALSE, err |-> "nil"] : in \in {[type |-> t, ExportPodCIDR |-> ep, PodCIDRVrfName |-> pv, PodCIDRTableID |-> pt, PodCIDRProtocolID |-> pp, ExportLBIP |-> el, LBIPVrfName |-> IF t = "RouteExporterOptions" THEN "vrf1" ELSE pv, LBIPTableID |-> IF t = "RouteExporterOptions" THEN lt ELSE pt, LBIPProtocolID |-> lp] : t \in {"RouteExporterConfig", "RouteExporterOptions", "RouteExporterConfig+AddressFamilies"}, ep \in BOOLEAN, el \in BOOLEAN, pv \in {"", "vrf0"}, pt \in {0, 100}, lt \in {100, 101}, pp \in {0, 2, RTPROT_STATIC, 200}, lp \in {0, 2, 200, 201}}}
    /\ kroutes = {}
    /\ klinks = {}
    /\ kreject = {}
    /\ cfg = NoCfg
    /\ podCIDRSyncerLastError = "nil"
    /\ lbIPSyncerLastError = "nil"
    /\ lastPass = NoPass
    /\ nEvents = 0
    /\ IdleVrf
    /\ IdleSvc


\* One call of NewRouteExporter: the exporter is created when no error is
\* returned.
NewRouteExporterCall ==
    /\ ~ctor.done
    /\ LET e == NewRouteExporter(ctor.in)
       IN /\ ctor' = [ctor EXCEPT !.done = TRUE, !.err = e]
          /\ cfg' = IF e = "nil" THEN ctor.in ELSE cfg
    /\ UNCHANGED <<kroutes, klinks, kreject, podCIDRSyncerLastError,
                   lbIPSyncerLastError, lastPass, nEvents, <<krules, cvrfs, handlers, mutex, everDesired, lastVrf, nVrfOps>>, <<services, lastSvc, nSvcEvents>>, <<rib, fib, changes, iter, pc, cur, sel, nWrites, watch, ret, snap>>, dist, ctx, health, fibTxn, fibreject, fibWatch, pk>>

SpecCtor == InitCtor /\ [][NewRouteExporterCall]_vars

(***************************************************************************)
(* The exporter on a kernel that refuses some destinations, and on a node  *)
(* where a device with the VRF's name is bound to another table.           *)
(***************************************************************************)

InitFaults ==
    /\ InitRIB
    /\ IdleDistance
    /\ cfg = [PodCIDRVrfName |-> "vrf0", PodCIDRTableID |-> 100, PodCIDRProtocolID |-> 200, LBIPVrfName |-> "vrf1", LBIPTableID |-> 101, LBIPProtocolID |-> 201, AddressFamilies |-> <<"FAMILY_V4", "FAMILY_V6">>]
    /\ klinks \in {{Eth0}, {Eth0, Vrf0("up")}, {Eth0, Vrf0("down")}} \cup {{Eth0, [Name |-> "vrf0", Index |-> 2, Table |-> 101, OperState |-> "up"]}}
    /\ kroutes \in SUBSET {r \in {NewRoute(2, NetA, 100, 200), NewRoute(2, NetVIP, 100, 200)} :
                               \E l \in klinks : l.Index = r.LinkIndex}
    /\ kreject \in SUBSET {NetA, NetVIP, (ParseCIDR(Txt6).net)}
    /\ podCIDRSyncerLastError = "nil"
    /\ lbIPSyncerLastError = "nil"
    /\ lastPass = NoPass
    /\ nEvents = 0
    /\ ctor = NoCtor
    /\ IdleVrf
    /\ IdleSvc

SpecFaults == InitFaults /\ [][NextExporter]_vars

(***************************************************************************)
(* pkg/k8s/watchers: the CiliumVRF watcher.  reconcileVrfs has two         *)
(* definitions in the source: one takes the package-level mutex, leaves    *)
(* the route exporter's VRFs out of getVrfs and reconciles rules           *)
(* ("mutex+rules"); the one of cilium_vrf.go does none of the three        *)
(* ("cilium_vrf.go").  cfg.reconciler says which one runs.                 *)
(***************************************************************************)

\* getVrfs: the VRF devices among the links; one definition leaves out the
\* route exporter's VRFs when the exporter is enabled
getVrfs(links, c) ==
    {l \in links :
        /\ IsVrf(l)
        /\ ~(/\ c.reconciler = "mutex+rules"
              /\ c.EnableRouteExporter
              /\ (\/ l.Name = c.RouteExporterLBIPVrfName
                  \/ l.Name = c.RouteExporterPodCIDRVrfName))}

\* ensureVrf: the device by name, created if missing, brought up if down
ensureVrf(links, vrfName, tableID) ==
    LET added == IF LinkByName(links, vrfName) = {}
                 THEN LinkAdd(links, vrfName, tableID) ELSE links
        vrf == CHOOSE l \in LinkByName(added, vrfName) : TRUE
    IN IF vrf.OperState # "up" THEN LinkSetUp(added, vrf) ELSE added

\* deleteVrf: a missing device is fine; netlink.LinkDel removes the link
deleteVrf(links, vrfName) ==
    IF LinkByName(links, vrfName) = {}
    THEN links
    ELSE links \ {CHOOSE l \in LinkByName(links, vrfName) : TRUE}

\* the loop over desiredVrfs, in the order of the map
RECURSIVE ensureVrfs(_, _, _)
ensureVrfs(links, order, i) ==
    IF i > Len(order) THEN links
    ELSE ensureVrfs(ensureVrf(links, order[i].name, order[i].TableID), order, i + 1)

\* the loop over currentVrfs: every name that is not desired is deleted
RECURSIVE deleteVrfs(_, _, _)
deleteVrfs(links, names, desired) ==
    IF names = {} THEN links
    ELSE LET name == CHOOSE n \in names : TRUE
         IN deleteVrfs(IF name \in desired THEN links ELSE deleteVrf(links, name),
                       names \ {name}, desired)

\* Rule{srcIP, table, destinationCIDR}
Rule(srcIP, table, destinationCIDR) ==
    [srcIP |-> srcIP, table |-> table, destinationCIDR |-> destinationCIDR]

\* netlink.Rule with Src, Dst, Table and Priority set
NewRule(src, dst, table, priority) ==
    [Src |-> src, Dst |-> dst, Table |-> table, Priority |-> priority]

\* netlink.RuleListFiltered(AF_INET, rule, RT_FILTER_PRIORITY)
RuleListFiltered(rules, priority) == {r \in rules : r.Priority = priority}

\* netlink.RuleAdd: a rule that is there already is an error
RuleAdd(rules, r) ==
    IF r \in rules THEN [k |-> rules, err |-> "EEXIST"]
    ELSE [k |-> rules \cup {r}, err |-> "nil"]

\* netlink.RuleDel: deletes the matching tuple
RuleDel(rules, r) ==
    IF r \in rules THEN [k |-> rules \ {r}, err |-> "nil"]
    ELSE [k |-> rules, err |-> "ENOENT"]

\* getRules: the rules of priority 999 as Rule values
getRules(rules) ==
    {Rule(IPNetString(r.Src), r.Table, IPNetString(r.Dst)) :
        r \in RuleListFiltered(rules, RulePriority)}

\* ensureRule adding the rule without setting its priority
ensureRuleNoPriority(rules, rule) ==
    LET sip == ParseCIDR(rule.srcIP)
        dip == ParseCIDR(rule.destinationCIDR)
    IN IF sip.err # "nil" THEN [k |-> rules, err |-> sip.err]
       ELSE IF dip.err # "nil" THEN [k |-> rules, err |-> dip.err]
       ELSE RuleAdd(rules, NewRule(sip.net, dip.net, rule.table, 0))

ensureRule(rules, rule) ==
    LET sip == ParseCIDR(rule.srcIP)
        dip == ParseCIDR(rule.destinationCIDR)
    IN IF sip.err # "nil" THEN [k |-> rules, err |-> sip.err]
       ELSE IF dip.err # "nil" THEN [k |-> rules, err |-> dip.err]
       ELSE RuleAdd(rules, NewRule(sip.net, dip.net, rule.table, RulePriority))

deleteRule(rules, rule) ==
    LET sip == ParseCIDR(rule.srcIP)
        dip == ParseCIDR(rule.destinationCIDR)
    IN IF sip.err # "nil" THEN [k |-> rules, err |-> sip.err]
       ELSE IF dip.err # "nil" THEN [k |-> rules, err |-> dip.err]
       ELSE RuleDel(rules, NewRule(sip.net, dip.net, rule.table, RulePriority))

\* ep.GetIPv4Address() + "/32"

\* desiredRules: for every CiliumVRF, every endpoint its selector matches and
\* every destination CIDR
desiredRules(objs) ==
    {Rule([fam |-> "FAMILY_V4", ip |-> ep.ip, len |-> Len(ep.ip)], cvrf.TableID, cvrf.DestinationCIDRs[i]) :
        <<cvrf, ep, i>> \in
            {t \in objs \X {[labels |-> {"app", "tier"}, ip |-> <<0, 1>>], [labels |-> {"app"}, ip |-> <<1, 0>>]} \X {1} :
                /\ t[1].PodSelector \in t[2].labels
                /\ t[3] \in 1..Len(t[1].DestinationCIDRs)}}

\* the loop over desiredRules; the error of ensureRule is dropped
RECURSIVE ensureRules(_, _)
ensureRules(rules, desired) ==
    IF desired = {} THEN rules
    ELSE LET rule == CHOOSE r \in desired : TRUE
         IN ensureRules(ensureRule(rules, rule).k, desired \ {rule})

\* the loop over currentRules; the error of deleteRule is dropped
RECURSIVE deleteRules(_, _, _)
deleteRules(rules, current, desired) ==
    IF current = {} THEN rules
    ELSE LET rule == CHOOSE r \in current : TRUE
         IN deleteRules(IF rule \in desired THEN rules ELSE deleteRule(rules, rule).k,
                        current \ {rule}, desired)

\* The lister's content changes: a CiliumVRF is added or deleted.
CvrfAdd(obj) ==
    /\ nVrfOps < MaxVrfOps
    /\ obj \notin cvrfs
    /\ cvrfs' = cvrfs \cup {obj}
    /\ nVrfOps' = nVrfOps + 1
    /\ UNCHANGED <<klinks, krules, handlers, mutex, everDesired, lastVrf>>
    /\ UNCHANGED <<kroutes, kreject, cfg, podCIDRSyncerLastError, lbIPSyncerLastError,
                   lastPass, nEvents, ctor, <<services, lastSvc, nSvcEvents>>, <<rib, fib, changes, iter, pc, cur, sel, nWrites, watch, ret, snap>>, dist, ctx, health, fibTxn, fibreject, fibWatch, pk>>

CvrfDelete(obj) ==
    /\ nVrfOps < MaxVrfOps
    /\ obj \in cvrfs
    /\ cvrfs' = cvrfs \ {obj}
    /\ nVrfOps' = nVrfOps + 1
    /\ UNCHANGED <<klinks, krules, handlers, mutex, everDesired, lastVrf>>
    /\ UNCHANGED <<kroutes, kreject, cfg, podCIDRSyncerLastError, lbIPSyncerLastError,
                   lastPass, nEvents, ctor, <<services, lastSvc, nSvcEvents>>, <<rib, fib, changes, iter, pc, cur, sel, nWrites, watch, ret, snap>>, dist, ctx, health, fibTxn, fibreject, fibWatch, pk>>

\* reconcileVrfs is called; mutex.Lock() where the definition has it.
VrfBegin(h) ==
    /\ nVrfOps < MaxVrfOps
    /\ handlers[h].pc = "idle"
    /\ IF cfg.reconciler = "mutex+rules"
       THEN mutex = 0 /\ mutex' = h
       ELSE mutex' = mutex
    /\ handlers' = [handlers EXCEPT ![h].pc = "list"]
    /\ nVrfOps' = nVrfOps + 1
    /\ UNCHANGED <<klinks, krules, cvrfs, everDesired, lastVrf>>
    /\ UNCHANGED <<kroutes, kreject, cfg, podCIDRSyncerLastError, lbIPSyncerLastError,
                   lastPass, nEvents, ctor, <<services, lastSvc, nSvcEvents>>, <<rib, fib, changes, iter, pc, cur, sel, nWrites, watch, ret, snap>>, dist, ctx, health, fibTxn, fibreject, fibWatch, pk>>

\* vrfLister.List and getVrfs: desiredVrfs and currentVrfs are filled.
VrfList(h) ==
    /\ handlers[h].pc = "list"
    /\ handlers' = [handlers EXCEPT
                        ![h].pc = "vrfs",
                        ![h].cvrfs = cvrfs,
                        ![h].currentVrfs = {l.Name : l \in getVrfs(klinks, cfg)}]
    /\ everDesired' = everDesired \cup {c.name : c \in cvrfs}
    /\ UNCHANGED <<klinks, krules, cvrfs, mutex, lastVrf, nVrfOps>>
    /\ UNCHANGED <<kroutes, kreject, cfg, podCIDRSyncerLastError, lbIPSyncerLastError,
                   lastPass, nEvents, ctor, <<services, lastSvc, nSvcEvents>>, <<rib, fib, changes, iter, pc, cur, sel, nWrites, watch, ret, snap>>, dist, ctx, health, fibTxn, fibreject, fibWatch, pk>>

\* The two loops over desiredVrfs and currentVrfs.  The definition of
\* cilium_vrf.go ends here.
VrfWrite(h) ==
    /\ handlers[h].pc = "vrfs"
    /\ \E order \in Orders(handlers[h].cvrfs) :
          klinks' = deleteVrfs(ensureVrfs(klinks, order, 1), handlers[h].currentVrfs,
                               {c.name : c \in handlers[h].cvrfs})
    /\ lastVrf' = [h |-> h, stage |-> "vrfs", cvrfs |-> handlers[h].cvrfs,
                    currentVrfs |-> handlers[h].currentVrfs]
    /\ handlers' = [handlers EXCEPT
                        ![h] = IF cfg.reconciler = "mutex+rules"
                               THEN [@ EXCEPT !.pc = "rules"] ELSE NoLocals]
    /\ UNCHANGED <<krules, cvrfs, mutex, everDesired, nVrfOps>>
    /\ UNCHANGED <<kroutes, kreject, cfg, podCIDRSyncerLastError, lbIPSyncerLastError,
                   lastPass, nEvents, ctor, <<services, lastSvc, nSvcEvents>>, <<rib, fib, changes, iter, pc, cur, sel, nWrites, watch, ret, snap>>, dist, ctx, health, fibTxn, fibreject, fibWatch, pk>>

\* getRules, desiredRules, the two loops over them, and the deferred
\* mutex.Unlock().
VrfRules(h) ==
    /\ handlers[h].pc = "rules"
    /\ LET currentRules == getRules(krules)
           desired == desiredRules(handlers[h].cvrfs)
       IN /\ krules' = deleteRules(ensureRules(krules, desired), currentRules, desired)
          /\ lastVrf' = [h |-> h, stage |-> "rules", cvrfs |-> handlers[h].cvrfs,
                          currentVrfs |-> handlers[h].currentVrfs,
                          listed |-> RuleListFiltered(krules, RulePriority),
                          ruleAdds |-> {NewRule(ParseCIDR(r.srcIP).net,
                                                ParseCIDR(r.destinationCIDR).net,
                                                r.table, RulePriority) :
                                          r \in {d \in desired :
                                                    /\ ParseCIDR(d.srcIP).err = "nil"
                                                    /\ ParseCIDR(d.destinationCIDR).err = "nil"}},
                          ruleDels |-> {NewRule(ParseCIDR(r.srcIP).net,
                                                ParseCIDR(r.destinationCIDR).net,
                                                r.table, RulePriority) :
                                          r \in {c \in currentRules \ desired :
                                                    /\ ParseCIDR(c.srcIP).err = "nil"
                                                    /\ ParseCIDR(c.destinationCIDR).err = "nil"}}]
    /\ handlers' = [handlers EXCEPT ![h] = NoLocals]
    /\ mutex' = 0
    /\ UNCHANGED <<klinks, cvrfs, everDesired, nVrfOps>>
    /\ UNCHANGED <<kroutes, kreject, cfg, podCIDRSyncerLastError, lbIPSyncerLastError,
                   lastPass, nEvents, ctor, <<services, lastSvc, nSvcEvents>>, <<rib, fib, changes, iter, pc, cur, sel, nWrites, watch, ret, snap>>, dist, ctx, health, fibTxn, fibreject, fibWatch, pk>>

\* a rule of another priority with the fields of a rule of the reconciler
ForeignRule == NewRule(ParseCIDR([fam |-> "FAMILY_V4", ip |-> <<0, 1>>, len |-> 2]).net, NetA, 10, 100)

InitVrf ==
    /\ InitRIB
    /\ IdleDistance
    /\ cfg \in {[reconciler |-> r, EnableRouteExporter |-> e, RouteExporterPodCIDRVrfName |-> "vrf0", RouteExporterLBIPVrfName |-> "vrf1"] : r \in {"mutex+rules", "cilium_vrf.go"}, e \in BOOLEAN}
    /\ klinks \in {{Eth0}, {Eth0, Vrf0("up")}, {Eth0, Vrf0("up"), [Name |-> "vrf-x", Index |-> 3, Table |-> 50, OperState |-> "up"]}}
    /\ krules \in {{}, {ForeignRule}}
    /\ cvrfs = {}
    /\ handlers = [h \in Handlers |-> NoLocals]
    /\ mutex = 0
    /\ everDesired = {}
    /\ lastVrf = [h |-> 0, stage |-> "none", cvrfs |-> {}, currentVrfs |-> {}]
    /\ nVrfOps = 0
    /\ kroutes = {}
    /\ kreject = {}
    /\ podCIDRSyncerLastError = "nil"
    /\ lbIPSyncerLastError = "nil"
    /\ lastPass = NoPass
    /\ nEvents = 0
    /\ ctor = NoCtor
    /\ IdleSvc

SpecVrf ==
    InitVrf /\ [][\/ \E obj \in {[name |-> "vrf-a", TableID |-> 10, PodSelector |-> "app", DestinationCIDRs |-> <<TxtA>>], [name |-> "vrf-b", TableID |-> 11, PodSelector |-> "tier", DestinationCIDRs |-> <<[fam |-> "FAMILY_V4", ip |-> <<0, 1>>, len |-> 2]>>], [name |-> "vrf-h", TableID |-> 12, PodSelector |-> "tier", DestinationCIDRs |-> <<TxtAHost>>], [name |-> "eth0", TableID |-> 13, PodSelector |-> "none", DestinationCIDRs |-> <<>>]} : CvrfAdd(obj)
                  \/ \E obj \in {[name |-> "vrf-a", TableID |-> 10, PodSelector |-> "app", DestinationCIDRs |-> <<TxtA>>], [name |-> "vrf-b", TableID |-> 11, PodSelector |-> "tier", DestinationCIDRs |-> <<[fam |-> "FAMILY_V4", ip |-> <<0, 1>>, len |-> 2]>>], [name |-> "vrf-h", TableID |-> 12, PodSelector |-> "tier", DestinationCIDRs |-> <<TxtAHost>>], [name |-> "eth0", TableID |-> 13, PodSelector |-> "none", DestinationCIDRs |-> <<>>]} : CvrfDelete(obj)
                  \/ \E h \in Handlers : VrfBegin(h)
                  \/ \E h \in Handlers : VrfList(h)
                  \/ \E h \in Handlers : VrfWrite(h)
                  \/ \E h \in Handlers : VrfRules(h)]_vars

(***************************************************************************)
(* pkg/k8s/watchers: the Service watcher and the routes of the             *)
(* load-balancer ingress IPs.  An IP text is the address it spells and the *)
(* form it is spelled in; IPv4 addresses have two bits here, IPv6          *)
(* addresses three.                                                        *)
(***************************************************************************)
\* svc.Status.LoadBalancer.Ingress[i].IP: "" with a hostname-only ingress
NoIPText == [form |-> "", ip |-> <<>>]

\* net.ParseIP: nil for a text that is no address; an IPv4 address spelled
\* as IPv4-mapped IPv6 is the IPv4 address
ParseIP(text) ==
    IF text.form \in {"v4", "v4-in-v6"} THEN [fam |-> "FAMILY_V4", ip |-> text.ip]
    ELSE IF text.form = "v6" THEN [fam |-> "FAMILY_V6", ip |-> text.ip]
    ELSE [fam |-> "", ip |-> <<>>]

\* ip.To4() != nil answering no for every address
To4Never(ip) == FALSE

\* ip.To4() != nil
To4(ip) == ip.fam = "FAMILY_V4"

\* ip.String() + prefixLenStr, "<nil>" for the nil address: "/32" is the
\* length of an IPv4 address, two bits here, and "/128" that of an IPv6
\* address, three bits
IPStringWithLen(ip, prefixLenStr) ==
    [fam |-> ip.fam, ip |-> ip.ip, len |-> IF prefixLenStr = "/32" THEN 2 ELSE 3]

\* cidr.DiffCIDRLists(old, new): what new adds and what it drops
DiffCIDRLists(old, new) ==
    [added |-> SelectSeq(new, LAMBDA n : \A i \in 1..Len(old) : old[i] # n),
     removed |-> SelectSeq(old, LAMBDA o : \A i \in 1..Len(new) : new[i] # o)]

RECURSIVE updateExportRoutes(_, _, _, _, _, _)
updateExportRoutes(st, prefixes, ifindex, tableID, protocolID, i) ==
    IF i > Len(prefixes)
    THEN st
    ELSE LET route == NewRoute(ifindex, prefixes[i], tableID, protocolID)
             e == RouteReplaceErr(st.rej, route)
         IN IF e # "nil"
            THEN [st EXCEPT !.err = e]
            ELSE updateExportRoutes([st EXCEPT !.k = RouteReplace(@, route)],
                                    prefixes, ifindex, tableID, protocolID, i + 1)

RECURSIVE deleteExportRoutes(_, _, _, _, _, _)
deleteExportRoutes(st, prefixes, ifindex, tableID, protocolID, i) ==
    IF i > Len(prefixes)
    THEN st
    ELSE LET d == RouteDel(st.k, NewRoute(ifindex, prefixes[i], tableID, protocolID))
         IN IF d.err # "nil"
            THEN [st EXCEPT !.k = d.k, !.err = d.err]
            ELSE deleteExportRoutes([st EXCEPT !.k = d.k],
                                    prefixes, ifindex, tableID, protocolID, i + 1)

updateOrRemoveExportRoutes(st, old, new, vrfName, tableID, protocolID) ==
    LET diff == DiffCIDRLists(old, new)
        v == reconcileVrf(st.links, vrfName, tableID)
        st1 == [st EXCEPT !.links = v.links, !.err = v.err]
    IN IF v.err # "nil"
       THEN st1
       ELSE LET st2 == updateExportRoutes(st1, diff.added, v.Index, tableID, protocolID, 1)
            IN IF st2.err # "nil"
               THEN st2
               ELSE deleteExportRoutes(st2, diff.removed, v.Index, tableID, protocolID, 1)

\* addK8sServiceV1, the route exporter's part
addK8sServiceV1(st, svc, c) ==
    IF c.EnableRouteExporter /\ c.RouteExporterExportLBIP /\ Len(svc.ingress) = 1
    THEN LET ip == ParseIP(svc.ingress[1])
             prefixLenStr == IF To4(ip) THEN "/32" ELSE "/128"
             prefix == ParseCIDR(IPStringWithLen(ip, prefixLenStr))
         IN IF prefix.err # "nil"
            THEN [st EXCEPT !.err = prefix.err]
            ELSE updateOrRemoveExportRoutes(st, <<>>, <<prefix.net>>,
                                            c.RouteExporterVrfName,
                                            c.RouteExporterTableID,
                                            c.RouteExporterLBIPProtocolID)
    ELSE st

Services == [name : {"svc-a", "svc-b"}, ingress : {<<>>} \cup {<<t>> : t \in {[form |-> "v4", ip |-> <<1, 1>>], [form |-> "v4", ip |-> <<0, 1>>], [form |-> "v4-in-v6", ip |-> <<1, 0>>], [form |-> "v6", ip |-> <<1, 1, 0>>], NoIPText}} \cup {<<[form |-> "v4", ip |-> <<1, 1>>], [form |-> "v4", ip |-> <<0, 1>>]>>}]

\* AddFunc
SvcAdd(svc) ==
    /\ nSvcEvents < MaxSvcEvents
    /\ \A s \in services : s.name # svc.name
    /\ LET st == addK8sServiceV1(Kernel, svc, cfg)
       IN /\ kroutes' = st.k
          /\ klinks' = st.links
          /\ lastSvc' = [op |-> "add", svc |-> svc, err |-> st.err]
    /\ services' = services \cup {svc}
    /\ nSvcEvents' = nSvcEvents + 1
    /\ UNCHANGED <<kreject, cfg, podCIDRSyncerLastError, lbIPSyncerLastError,
                   lastPass, nEvents, ctor, <<krules, cvrfs, handlers, mutex, everDesired, lastVrf, nVrfOps>>, <<rib, fib, changes, iter, pc, cur, sel, nWrites, watch, ret, snap>>, dist, ctx, health, fibTxn, fibreject, fibWatch, pk>>

\* UpdateFunc: nothing is done for an update that changes nothing;
\* updateK8sServiceV1 is addK8sServiceV1 of the new object
SvcUpdate(oldSvc, newSvc) ==
    /\ nSvcEvents < MaxSvcEvents
    /\ oldSvc \in services
    /\ newSvc.name = oldSvc.name
    /\ newSvc # oldSvc
    /\ LET st == addK8sServiceV1(Kernel, newSvc, cfg)
       IN /\ kroutes' = st.k
          /\ klinks' = st.links
          /\ lastSvc' = [op |-> "update", svc |-> newSvc, err |-> st.err]
    /\ services' = (services \ {oldSvc}) \cup {newSvc}
    /\ nSvcEvents' = nSvcEvents + 1
    /\ UNCHANGED <<kreject, cfg, podCIDRSyncerLastError, lbIPSyncerLastError,
                   lastPass, nEvents, ctor, <<krules, cvrfs, handlers, mutex, everDesired, lastVrf, nVrfOps>>, <<rib, fib, changes, iter, pc, cur, sel, nWrites, watch, ret, snap>>, dist, ctx, health, fibTxn, fibreject, fibWatch, pk>>

\* DeleteFunc: deleteK8sServiceV1 takes the Service out of the cache and
\* makes no kernel call
SvcDelete(svc) ==
    /\ nSvcEvents < MaxSvcEvents
    /\ svc \in services
    /\ lastSvc' = [op |-> "delete", svc |-> svc, err |-> "nil"]
    /\ UNCHANGED <<kroutes, klinks>>
    /\ services' = services \ {svc}
    /\ nSvcEvents' = nSvcEvents + 1
    /\ UNCHANGED <<kreject, cfg, podCIDRSyncerLastError, lbIPSyncerLastError,
                   lastPass, nEvents, ctor, <<krules, cvrfs, handlers, mutex, everDesired, lastVrf, nVrfOps>>, <<rib, fib, changes, iter, pc, cur, sel, nWrites, watch, ret, snap>>, dist, ctx, health, fibTxn, fibreject, fibWatch, pk>>

InitSvc ==
    /\ InitRIB
    /\ IdleDistance
    /\ cfg \in {[EnableRouteExporter |-> e, RouteExporterExportLBIP |-> x, RouteExporterVrfName |-> "vrf0", RouteExporterTableID |-> 100, RouteExporterLBIPProtocolID |-> 201] : e, x \in BOOLEAN}
    /\ klinks \in {{Eth0}, {Eth0, Vrf0("up")}}
    /\ kroutes \in {{}, {(NewRoute(2, NetA, 100, 200))}}
    /\ kreject = {}
    /\ services = {}
    /\ lastSvc = [op |-> "none", svc |-> [name |-> "", ingress |-> <<>>], err |-> "nil"]
    /\ nSvcEvents = 0
    /\ podCIDRSyncerLastError = "nil"
    /\ lbIPSyncerLastError = "nil"
    /\ lastPass = NoPass
    /\ nEvents = 0
    /\ ctor = NoCtor
    /\ IdleVrf

SpecSvc ==
    InitSvc /\ [][\/ \E svc \in Services : SvcAdd(svc)
                  \/ \E oldSvc, newSvc \in Services : SvcUpdate(oldSvc, newSvc)
                  \/ \E svc \in Services : SvcDelete(svc)]_vars

InitDistance ==
    /\ InitRIB
    /\ IdleExporter
    /\ dist \in {[desired |-> d, current |-> c, addSet |-> {}, deleteSet |-> {},
               done |-> FALSE] : d, c \in SUBSET {EmptyText, TxtA, TxtAHost, Txt6}}
    /\ pk = [none |-> TRUE]

SpecDistance ==
    InitDistance /\ [][DistanceCall]_vars

AddrBits4 == 2
AddrBits6 == 3

\* Two prefixes of either family, of every address and every length.
InitKey ==
    /\ InitRIB
    /\ IdleExporter
    /\ dist = [none |-> TRUE]
    /\ pk \in {[a |-> a, b |-> b, ka |-> <<>>, kb |-> <<>>, done |-> FALSE] :
                a, b \in UNION {[type : {"IPv4Prefix"}, addr : [1..AddrBits4 -> {0, 1}],
                                 bits : 0..AddrBits4],
                                [type : {"IPv6Prefix"}, addr : [1..AddrBits6 -> {0, 1}],
                                 bits : 0..AddrBits6]}}

SpecKey ==
    InitKey /\ [][KeyCall]_vars

Spec ==
    Init /\ [][\/ \E rt \in Route : RIBInsert(rt)
               \/ \E rt \in Route : RIBDelete(rt)
               \/ ProcWake
               \/ ProcSelect
               \/ ProcWrite]_vars

\* Spec with fewer writes and the processor job scheduled fairly: the job
\* runs in its own goroutine and is never starved.
LiveInsert(rt) == nWrites < MaxLiveWrites /\ InsertCommit(rt) /\ UNCHANGED <<ret, snap>>
LiveDelete(rt) == nWrites < MaxLiveWrites /\ DeleteCommit(rt) /\ UNCHANGED <<ret, snap>>

NextLive ==
    \/ \E rt \in Route : LiveInsert(rt)
    \/ \E rt \in Route : LiveDelete(rt)
    \/ ProcWake
    \/ ProcSelect
    \/ ProcWrite

FairSpec == Init /\ [][NextLive]_vars /\ WF_vars(Processor)

\* FairSpec with the job's context cancelled at some moment.  The select
\* after Iterate takes a ready case; with ctx.Done() ready at every select it
\* is not passed over for ever.
SpecCancel ==
    Init /\ [][NextLive \/ Cancel \/ ProcReturn]_vars
         /\ WF_vars(Processor) /\ WF_vars(ProcReturn)

\* FairSpec with a reader that takes the watch of FIB.All().
SpecWatch == Init /\ [][NextLive \/ WatchFIB]_vars /\ WF_vars(Processor)

\* FairSpec on tables whose FIB refuses the writes of some routes.
InitHealth ==
    /\ rib = {}
    /\ fib = {}
    /\ changes = {}
    /\ iter = {}
    /\ pc = "wait"
    /\ cur = NoChange
    /\ sel = NoSel
    /\ nWrites = 0
    /\ watch = [o \in Owners |-> "none"]
    /\ ret = [old |-> NoRoute, hadOld |-> FALSE]
    /\ snap = [op |-> "none", rt |-> NoRoute, fib |-> {}, quiet |-> FALSE]
    /\ ctx = "live"
    /\ health = [level |-> "none", err |-> "nil"]
    /\ fibTxn = "none"
    /\ fibreject \in {{}, {rt \in Route : rt.Owner = "ownerA"},
                      {rt \in Route : rt.Protocol = "ProtocolKubernetes"}}
    /\ fibWatch = [st |-> "none", fib |-> {}]
    /\ IdleExporter
    /\ IdleDistance

SpecHealth == InitHealth /\ [][NextLive]_vars /\ WF_vars(Processor)

(***************************************************************************)
(* The steps of TestBestPathSelection against the running processor: a     *)
(* step opens a read transaction, commits one RIB write and keeps what     *)
(* Insert or Delete returned.                                              *)
(***************************************************************************)
\* The routes the steps write: every protocol and owner, on the two prefixes
\* that differ in length only.
StepRoutes == {rt \in Route : rt.Prefix \in {PfxShort, PfxLong}}

StepInsert(rt) ==
    /\ nWrites < MaxSteps
    /\ InsertCommit(rt)
    /\ ret' = TableOld(RIBLookup(rib, rt))
    /\ snap' = [op |-> "Insert", rt |-> rt, fib |-> fib,
                 quiet |-> (pc = "wait" /\ changes = {})]

StepDelete(rt) ==
    /\ nWrites < MaxSteps
    /\ DeleteCommit(rt)
    /\ ret' = TableOld(RIBLookup(rib, rt))
    /\ snap' = [op |-> "Delete", rt |-> rt, fib |-> fib,
                 quiet |-> (pc = "wait" /\ changes = {})]

SpecSteps ==
    Init /\ [][\/ \E rt \in StepRoutes : StepInsert(rt)
               \/ \E rt \in StepRoutes : StepDelete(rt)
               \/ ProcWake
               \/ ProcSelect
               \/ ProcWrite]_vars

(***************************************************************************)
(* The table API as its callers and tests use it: committed single-row     *)
(* write transactions on the RIB and on the FIB, and Get(RIBOwnerIndex, o) *)
(* whose watch handle the caller keeps.                                    *)
(***************************************************************************)
\* A committed FIB write transaction inserting rt.
FIBInsertCommit(rt) ==
    /\ fib' = FIBInsertRow(fib, rt)
    /\ fibWatch' = IF fibWatch.st = "open" THEN [fibWatch EXCEPT !.st = "fired"] ELSE fibWatch
    /\ nWrites' = nWrites + 1
    /\ UNCHANGED <<rib, changes, iter, pc, cur, sel, watch, <<kroutes, klinks, kreject, cfg, podCIDRSyncerLastError, lbIPSyncerLastError, lastPass, nEvents, ctor, <<krules, cvrfs, handlers, mutex, everDesired, lastVrf, nVrfOps>>, <<services, lastSvc, nSvcEvents>>>>, dist, ctx, health, fibTxn, fibreject, pk>>

\* A committed FIB write transaction deleting the row with rt's primary key.
FIBDeleteCommit(rt) ==
    /\ FIBLookup(fib, rt) # {}
    /\ fib' = FIBDeleteRow(fib, rt)
    /\ fibWatch' = IF fibWatch.st = "open" THEN [fibWatch EXCEPT !.st = "fired"] ELSE fibWatch
    /\ nWrites' = nWrites + 1
    /\ UNCHANGED <<rib, changes, iter, pc, cur, sel, watch, <<kroutes, klinks, kreject, cfg, podCIDRSyncerLastError, lbIPSyncerLastError, lastPass, nEvents, ctor, <<krules, cvrfs, handlers, mutex, everDesired, lastVrf, nVrfOps>>, <<services, lastSvc, nSvcEvents>>>>, dist, ctx, health, fibTxn, fibreject, pk>>

TblRIBInsert(rt) ==
    /\ nWrites < MaxTableOps
    /\ InsertCommit(rt)
    /\ ret' = TableOld(RIBLookup(rib, rt))
    /\ UNCHANGED snap

TblRIBDelete(rt) ==
    /\ nWrites < MaxTableOps
    /\ DeleteCommit(rt)
    /\ ret' = TableOld(RIBLookup(rib, rt))
    /\ UNCHANGED snap

TblFIBInsert(rt) ==
    /\ nWrites < MaxTableOps
    /\ FIBInsertCommit(rt)
    /\ ret' = TableOld(FIBLookup(fib, rt))
    /\ UNCHANGED snap

TblFIBDelete(rt) ==
    /\ nWrites < MaxTableOps
    /\ FIBDeleteCommit(rt)
    /\ ret' = TableOld(FIBLookup(fib, rt))
    /\ UNCHANGED snap

\* rib.Get(ReadTxn, RIBOwnerIndex.Query(o)): the caller keeps the new handle.
GetOwner(o) ==
    /\ watch[o] # "open"
    /\ watch' = [watch EXCEPT ![o] = "open"]
    /\ UNCHANGED <<rib, fib, changes, iter, pc, cur, sel, nWrites, ret, snap, <<kroutes, klinks, kreject, cfg, podCIDRSyncerLastError, lbIPSyncerLastError, lastPass, nEvents, ctor, <<krules, cvrfs, handlers, mutex, everDesired, lastVrf, nVrfOps>>, <<services, lastSvc, nSvcEvents>>>>, dist, ctx, health, fibTxn, fibreject, fibWatch, pk>>

\* The routes the table operations are run on: those of the tests' protocol
\* and of one more, so that a row and its replacement differ.
TableRoutes == {rt \in Route : rt.Protocol \in {"ProtocolKubernetes", "ProtocolEBGP"}}

SpecTables ==
    Init /\ [][\/ \E rt \in TableRoutes : TblRIBInsert(rt)
               \/ \E rt \in TableRoutes : TblRIBDelete(rt)
               \/ \E rt \in TableRoutes : TblFIBInsert(rt)
               \/ \E rt \in TableRoutes : TblFIBDelete(rt)
               \/ \E o \in Owners : GetOwner(o)]_vars

(***************************************************************************)
(* Claims on the RIB/FIB engine                                            *)
(***************************************************************************)
\* The processor waits and no committed change is pending.
Quiescent == pc = "wait" /\ changes = {}

RowsFor(tbl, p) == {r \in tbl : r.Prefix = p}

\* C1: at quiescence, every prefix that has a RIB row has a FIB entry that
\* is one of its RIB rows and has the minimum administrative distance among
\* them.
C1_FibIsArgminOfRib ==
    Quiescent =>
        \A p \in Prefixes :
            RowsFor(rib, p) # {} =>
                \E r \in RowsFor(fib, p) :
                    /\ r \in rib
                    /\ \A q \in RowsFor(rib, p) :
                        AdminDistance(r.Protocol) <= AdminDistance(q.Protocol)

\* C2: when a prefix has lost its last RIB row for good, the FIB eventually
\* holds no entry for it, and keeps none.
C2_DeleteOnLastWithdraw ==
    \A p \in Prefixes :
        <>[](RowsFor(rib, p) = {}) => <>[](RowsFor(fib, p) = {})

\* A delete has removed the only RIB row of a prefix whose entry is still in
\* the FIB, and the processor has not handled the delete yet.
C2_Witness ==
    \E p \in Prefixes :
        /\ RowsFor(rib, p) = {}
        /\ RowsFor(fib, p) # {}
        /\ \E c \in changes : c.deleted /\ c.rt.Prefix = p

\* C7: a committed RIB write that inserts or deletes a row of owner A leaves
\* an open handle of Get(RIBOwnerIndex, B), B other than A, unsignaled.
\* (The row a write inserts is in the RIB after it, the row it deletes before.)
C7_OwnerWatchIsolation ==
    [][\A rt \in rib \cup rib' : \A b \in Owners :
          (rt.Owner # b /\ watch[b] = "open" /\ (InsertCommit(rt) \/ DeleteCommit(rt)))
              => watch'[b] = "open"]_vars

\* A write of ownerA has signaled ownerA's handle while ownerB's handle,
\* open at the time, and with ownerB holding rows, stayed open.
C7_Witness ==
    /\ watch["ownerA"] = "fired"
    /\ watch["ownerB"] = "open"
    /\ GetByOwner(rib, "ownerB") # {}

RowsOf(tbl, p, o) == {r \in tbl : r.Prefix = p /\ r.Owner = o}

\* C8: the RIB never holds two rows with the same (Prefix, Owner); an insert
\* of a (Prefix, Owner) that is there replaces the row and leaves the row
\* count alone; an insert of a Prefix that is there under other owners only
\* adds a row for that prefix and keeps the others.
C8_RIBPrimaryKeyUnique ==
    [][/\ \A r1, r2 \in rib' : RouteID(r1) = RouteID(r2) => r1 = r2
       /\ \A rt \in rib' :
            InsertCommit(rt) =>
                /\ RowsOf(rib', rt.Prefix, rt.Owner) = {rt}
                /\ RowsOf(rib, rt.Prefix, rt.Owner) # {}
                       => Cardinality(rib') = Cardinality(rib)
                /\ (RowsOf(rib, rt.Prefix, rt.Owner) = {} /\ RowsFor(rib, rt.Prefix) # {})
                       => /\ RowsFor(rib, rt.Prefix) \subseteq rib'
                          /\ Cardinality(RowsFor(rib', rt.Prefix))
                                = Cardinality(RowsFor(rib, rt.Prefix)) + 1]_vars

\* The RIB holds two rows for one prefix, of two owners, after an insert
\* that replaced a row.
C8_Witness ==
    /\ ret.hadOld
    /\ \E r1, r2 \in rib :
        /\ r1.Prefix = r2.Prefix
        /\ r1.Owner # r2.Owner
        /\ RouteID(ret.old) = RouteID(r1)

\* C9: the FIB never holds two rows with the same Prefix; after an insert
\* the only row for the inserted prefix is the inserted route.
C9_FIBPrimaryKeyUnique ==
    [][/\ \A r1, r2 \in fib' : r1.Prefix = r2.Prefix => r1 = r2
       /\ \A rt \in fib' : FIBInsertCommit(rt) => RowsFor(fib', rt.Prefix) = {rt}]_vars

\* A FIB insert has replaced the row of another owner for the same prefix.
C9_Witness ==
    /\ ret.hadOld
    /\ \E r \in fib :
        /\ r.Prefix = ret.old.Prefix
        /\ r.Owner # ret.old.Owner
        /\ RowsFor(fib, r.Prefix) = {r}

(***************************************************************************)
(* Claims on the route exporters                                           *)
(***************************************************************************)
\* list_routes of the pod-CIDR partition on kernel routes k
PodCIDRListed(k) ==
    getKernelRoutes(k, cfg.PodCIDRTableID, cfg.PodCIDRProtocolID, cfg.AddressFamilies)

\* The kernel routes carrying a table and a protocol.
PartitionRows(k, table, proto) == {r \in k : r.Table = table /\ r.Protocol = proto}

\* C3: a pod-CIDR reconcile pass that follows a pass on the same node object
\* leaves the kernel routes as that pass left them.
C3_ReconcileIdempotent ==
    [][\A node \in Nodes :
          (lastPass.kind = "node" /\ lastPass.in = node /\ PodCIDRNodeEvent(node))
              => kroutes' = kroutes]_vars

PodCIDRWrite ==
    \/ \E node \in Nodes : PodCIDRNodeEvent(node)
    \/ \E u, d \in PrefixLists : UpdateOrDeletePodCIDRRoutes(u, d)

\* C4: when the pod-CIDR and the LB-IP concern own distinct {tableID,
\* protocolID} pairs, no call of one adds, removes or changes a kernel route
\* that carries the table and protocol of the other: a step that changes the
\* rows of one partition is no call of the other concern.
C4_PartitionSafety ==
    [][<<cfg.PodCIDRTableID, cfg.PodCIDRProtocolID>> # <<cfg.LBIPTableID, cfg.LBIPProtocolID>> =>
          /\ \/ PartitionRows(kroutes', cfg.LBIPTableID, cfg.LBIPProtocolID)
                    = PartitionRows(kroutes, cfg.LBIPTableID, cfg.LBIPProtocolID)
             \/ ~PodCIDRWrite
          /\ \/ PartitionRows(kroutes', cfg.PodCIDRTableID, cfg.PodCIDRProtocolID)
                    = PartitionRows(kroutes, cfg.PodCIDRTableID, cfg.PodCIDRProtocolID)
             \/ ~(\E u, d \in PrefixLists : UpdateOrDeleteLBIPRoutes(u, d))]_vars

\* A pod-CIDR pass has written a route to a destination for which the LB-IP
\* partition, in the same table under another protocol, holds a route.
C4_Witness ==
    /\ <<cfg.PodCIDRTableID, cfg.PodCIDRProtocolID>> # <<cfg.LBIPTableID, cfg.LBIPProtocolID>>
    /\ cfg.PodCIDRTableID = cfg.LBIPTableID
    /\ lastPass.kind = "node"
    /\ \E i \in 1..Len(lastPass.calls) :
          \E r \in PartitionRows(kroutes, cfg.LBIPTableID, cfg.LBIPProtocolID) :
              r.Dst = lastPass.calls[i].dst

\* C5: after a pod-CIDR pass without error, list_routes of the partition is
\* the desired set of the node event.
C5_ReconcileConverges ==
    (lastPass.kind = "node" /\ lastPass.err = "nil")
        => PodCIDRListed(kroutes) = getPodCIDRsFromK8sNode(lastPass.in)

\* C6: when a pass without error has left routes in the partition, the pass
\* on a node object with no pod CIDR at all leaves list_routes empty.
C6_PodCIDRWithdrawal ==
    [][\A node \in Nodes :
          (/\ lastPass.kind = "node"
           /\ lastPass.err = "nil"
           /\ PodCIDRListed(kroutes) # {}
           /\ node.PodCIDRs = <<>>
           /\ node.PodCIDR = EmptyText
           /\ PodCIDRNodeEvent(node))
              => PodCIDRListed(kroutes') = {}]_vars

\* C10: distance returns addSet = desired \ current and
\* deleteSet = current \ desired.
C10_DistanceIsSetDifference ==
    dist.done =>
        /\ dist.addSet = dist.desired \ dist.current
        /\ dist.deleteSet = dist.current \ dist.desired

\* distance has run on sets that share a prefix and differ both ways.
C10_Witness ==
    /\ dist.done
    /\ dist.desired \cap dist.current # {}
    /\ dist.addSet # {}
    /\ dist.deleteSet # {}

(***************************************************************************)
(* Claims about a single test step (SpecSteps).                            *)
(***************************************************************************)
\* The last step inserted a route with a new RouteID for a prefix whose FIB
\* entry, read before the insert, has a strictly smaller distance.
WorseInserted ==
    /\ snap.op = "Insert"
    /\ ~ret.hadOld
    /\ \E r \in RowsFor(snap.fib, snap.rt.Prefix) :
        AdminDistance(snap.rt.Protocol) > AdminDistance(r.Protocol)

\* C11 as stated: after an insert of another route with a strictly greater
\* distance than the FIB entry of its prefix, the FIB entry of that prefix is
\* in every later state the one read before the insert.
C11_WorseInsertKeepsFIB_Stated ==
    WorseInserted =>
        RowsFor(fib, snap.rt.Prefix) = RowsFor(snap.fib, snap.rt.Prefix)

\* C11: when the processor had handled every earlier RIB change, an insert
\* of another route with a strictly greater distance than the FIB entry of
\* its prefix leaves that FIB entry as it was, in every state until the next
\* RIB write.
C11_WorseInsertKeepsFIB ==
    (WorseInserted /\ snap.quiet) =>
        RowsFor(fib, snap.rt.Prefix) = RowsFor(snap.fib, snap.rt.Prefix)

\* The worse route is in the RIB, the processor has handled its insert and
\* is idle again.
C11_Witness ==
    /\ WorseInserted
    /\ snap.quiet
    /\ snap.rt \in rib
    /\ Quiescent

(***************************************************************************)
(* Claims about the FIB as a function of the RIB (Spec).                   *)
(***************************************************************************)

\* C12: at quiescence the prefixes that have a FIB entry are exactly the
\* prefixes that have at least one RIB row.
C12_FibPrefixesAreRibPrefixes ==
    Quiescent => \A p \in Prefixes : (RowsFor(fib, p) # {}) <=> (RowsFor(rib, p) # {})

createExportRouteSpec(part, prefix) ==
    NewRoute(getOrCreateVrf(klinks, part.vrf, part.table).Index, prefix,
             part.table, part.proto)

\* C14: a delete of pod-CIDR prefixes of which one has no route in the kernel
\* returns no error, calls RouteDel for every prefix of the list and leaves
\* podCIDRSyncerLastError as it was.
C14_MissingRouteIsSuccess ==
    [][\A deleted \in PrefixLists :
          (/\ \E i \in 1..Len(deleted) :
                  createExportRouteSpec(PodCIDRPartition(cfg), deleted[i]) \notin kroutes
           /\ UpdateOrDeletePodCIDRRoutes(<<>>, deleted))
              => /\ lastPass'.err = "nil"
                 /\ Len(lastPass'.calls) = Len(deleted)
                 /\ podCIDRSyncerLastError' = podCIDRSyncerLastError]_vars

(***************************************************************************)
(* Claims about a misbound VRF and a refusing kernel (SpecFaults).         *)
(***************************************************************************)
\* C15: when a device with the pod-CIDR VRF's name is bound to another table,
\* every pod-CIDR call of the exporter ends with an error and leaves the
\* kernel routes as they were.
C15_VrfMismatchDetected ==
    [][((\E l \in klinks : l.Name = cfg.PodCIDRVrfName /\ l.Table # cfg.PodCIDRTableID)
        /\ PodCIDRWrite)
          => (lastPass'.err # "nil" /\ kroutes' = kroutes)]_vars

\* C16: a pass of the exporter that ended with an error has stored that
\* error in lastError, and a pass makes no kernel call after a route replace
\* the kernel refused.
C16_AbortOnError ==
    lastPass.kind # "none" =>
        /\ lastPass.err # "nil" =>
              (IF lastPass.kind = "UpdateOrDeleteLBIPRoutes"
               THEN lbIPSyncerLastError ELSE podCIDRSyncerLastError) = lastPass.err
        /\ \A j \in 1..(Len(lastPass.calls) - 1) : ~(lastPass.calls[j].op = "RouteReplace" /\ lastPass.calls[j].dst \in kreject)

\* The index of the first prefix of a list the kernel refuses, 0 if none.
FirstRejected(prefixes) ==
    IF \E i \in 1..Len(prefixes) : prefixes[i] \in kreject
    THEN CHOOSE i \in 1..Len(prefixes) :
            /\ prefixes[i] \in kreject
            /\ \A j \in 1..(i - 1) : prefixes[j] \notin kreject
    ELSE 0

\* C17: a replace of a list of prefixes of which the kernel refuses one
\* returns that error, has called RouteReplace for the prefixes up to the
\* refused one and for none after it, and leaves the routes replaced before
\* it installed and every other kernel route as it was; in the exporter's
\* update call and in the add loop of a node pass.
C17_ReplaceFailsOnFirstError ==
    [][/\ \A u \in PrefixLists :
            (FirstRejected(u) > 0 /\ UpdateOrDeletePodCIDRRoutes(u, <<>>)) =>
                LET i == FirstRejected(u)
                    before == {createExportRouteSpec(PodCIDRPartition(cfg), u[j]) :
                                  j \in 1..(i - 1)}
                IN /\ lastPass'.err = "EINVAL"
                   /\ podCIDRSyncerLastError' = "EINVAL"
                   /\ lastPass'.calls = [j \in 1..i |-> [op |-> "RouteReplace", dst |-> u[j]]]
                   /\ before \subseteq kroutes'
                   /\ kroutes' \subseteq (kroutes \cup before)
       /\ \A node \in Nodes :
            ((LET d == distance(getPodCIDRsFromK8sNode(node), PodCIDRListed(kroutes))
              IN /\ \A t \in d.addSet : ParseCIDR(t).err = "nil"
                 /\ \E t \in d.addSet : ParseCIDR(t).net \in kreject)
             /\ PodCIDRNodeEvent(node)) =>
                LET c == lastPass'.calls
                    n == Len(c)
                    before == {createExportRouteSpec(PodCIDRPartition(cfg), c[j].dst) :
                                  j \in 1..(n - 1)}
                IN /\ lastPass'.err = "EINVAL"
                   /\ n > 0
                   /\ c[n].op = "RouteReplace" /\ c[n].dst \in kreject
                   /\ \A j \in 1..(n - 1) : c[j].op = "RouteReplace" /\ c[j].dst \notin kreject
                   /\ before \subseteq kroutes'
                   /\ kroutes' \subseteq (kroutes \cup before)]_vars

\* An update of two prefixes installed the first and was refused the second.
C17_Witness ==
    /\ lastPass.kind = "UpdateOrDeletePodCIDRRoutes"
    /\ lastPass.in = <<(<<NetVIP, NetA>>), <<>>>>
    /\ NetA \in kreject
    /\ NetVIP \notin kreject
    /\ lastPass.err = "EINVAL"
    /\ Len(lastPass.calls) = 2
    /\ \E r \in kroutes : r.Dst = NetVIP /\ r.Table = cfg.PodCIDRTableID
                             /\ r.Protocol = cfg.PodCIDRProtocolID

(***************************************************************************)
(* Claims about getKernelRoutes (SpecExporter).                            *)
(***************************************************************************)
\* C18: for the table and protocol of either concern and the configured
\* families, getKernelRoutes returns exactly the destination strings of the
\* kernel routes that carry that table and that protocol in one of those
\* families and have a destination.
C18_ListRoutesIsPartition ==
    \A part \in {PodCIDRPartition(cfg), LBIPPartition(cfg)} :
        getKernelRoutes(kroutes, part.table, part.proto, cfg.AddressFamilies)
            = {IPNetString(r.Dst) :
                  r \in {k \in kroutes :
                            /\ k.Table = part.table
                            /\ k.Protocol = part.proto
                            /\ \E i \in 1..Len(cfg.AddressFamilies) :
                                  k.Dst.fam = cfg.AddressFamilies[i]
                            /\ k.Dst # NilDst(k.Dst.fam)}}

\* A node pass has listed a kernel that holds, next to the pod CIDR of the
\* node, a route of another table, a route of another protocol and a route
\* without destination, and found nothing to change.
C18_Witness ==
    /\ lastPass.kind = "node"
    /\ lastPass.err = "nil"
    /\ lastPass.calls = <<>>
    /\ PodCIDRListed(kroutes) = {IPNetString(NetA)}
    /\ \E r \in kroutes : r.Table # cfg.PodCIDRTableID
    /\ \E r \in kroutes : r.Table = cfg.PodCIDRTableID /\ r.Protocol # cfg.PodCIDRProtocolID
    /\ \E r \in kroutes : /\ r.Table = cfg.PodCIDRTableID
                            /\ r.Protocol = cfg.PodCIDRProtocolID
                            /\ r.Dst = NilDst(r.Dst.fam)

(***************************************************************************)
(* Claims about NewRouteExporter (SpecCtor).                               *)
(***************************************************************************)
\* C19: a NewRouteExporter call on a configuration in which an enabled
\* concern has a protocol ID that is 0 or below RTPROT_STATIC returns an
\* error.
C19_ProtocolIDValidatedPerExporter ==
    ctor.done =>
        ((\/ ctor.in.ExportPodCIDR /\ ctor.in.PodCIDRProtocolID < RTPROT_STATIC
          \/ ctor.in.ExportLBIP /\ ctor.in.LBIPProtocolID < RTPROT_STATIC)
            => ctor.err # "nil")

\* C20: a NewRouteExporter call on a configuration that enables both
\* concerns with the same table ID and the same protocol ID returns an error
\* and creates no exporter.
C20_PartitionCollisionRejected ==
    ctor.done =>
        ((/\ ctor.in.ExportPodCIDR
          /\ ctor.in.ExportLBIP
          /\ ctor.in.PodCIDRTableID = ctor.in.LBIPTableID
          /\ ctor.in.PodCIDRProtocolID = ctor.in.LBIPProtocolID)
            => (ctor.err # "nil" /\ cfg = NoCfg))


C30_OwnerLookup ==
    \A o \in Owners : GetByOwner(rib, o) = {r \in rib : r.Owner = o}

\* The RIB holds the same prefix for both owners, Get(RIBOwnerIndex, A) was
\* called and its answer is the one row of A.
C30_Witness ==
    /\ watch["ownerA"] = "open"
    /\ \E r0, r1 \in rib :
          /\ r0.Prefix = r1.Prefix
          /\ r0.Owner = "ownerA"
          /\ r1.Owner = "ownerB"
          /\ GetByOwner(rib, "ownerA") = {r0}

(***************************************************************************)
(* The CiliumVRF watcher                                                   *)
(***************************************************************************)
\* C21: no step of a reconcile pass, whatever the CiliumVRF objects are,
\* deletes a VRF device named as the pod-CIDR exporter's or the LB-VIP
\* exporter's VRF.
C21_ExporterVrfsNeverDeleted ==
    [][\A l \in klinks :
          (/\ cfg.EnableRouteExporter
           /\ IsVrf(l)
           /\ l.Name \in {cfg.RouteExporterPodCIDRVrfName, cfg.RouteExporterLBIPVrfName})
              => \E k \in klinks' : k.Name = l.Name]_vars

\* C22: a VRF device whose name was never in the desired set of a pass (the
\* reconciler neither created nor ensured it) is deleted by no step of a pass.
C22_UnmanagedVrfsNeverDeleted ==
    [][\A l \in klinks :
          (IsVrf(l) /\ l.Name \notin everDesired) => \E k \in klinks' : k.Name = l.Name]_vars

\* C23: when the VRF loops of a pass are done, every CiliumVRF object's name
\* is a VRF device that is up, and every VRF the pass found in the kernel
\* whose name no CiliumVRF object has is gone.
C23_VrfConvergence ==
    [][\A h \in Handlers :
          (handlers[h].pc = "vrfs" /\ handlers'[h].pc # "vrfs") =>
              LET desired == {c.name : c \in handlers[h].cvrfs}
              IN /\ \A name \in desired :
                       \E l \in klinks' : l.Name = name /\ IsVrf(l) /\ l.OperState = "up"
                 /\ \A name \in handlers[h].currentVrfs \ desired :
                       LinkByName(klinks', name) = {}]_vars

\* C24: when the rule loops of a pass are done, the rules of priority 999
\* are exactly the rules of the pass's CiliumVRF objects, their matched pods
\* and their destination CIDRs; the rules only a removed CiliumVRF
\* contributed are gone and the others are kept.
C24_RuleConvergence ==
    [][\A h \in Handlers :
          (handlers[h].pc = "rules" /\ handlers'[h].pc # "rules") =>
              {Rule(r.Src, r.Table, r.Dst) : r \in RuleListFiltered(krules', RulePriority)}
                  = {Rule(ParseCIDR(r.srcIP).net, r.table, ParseCIDR(r.destinationCIDR).net) :
                        r \in desiredRules(handlers[h].cvrfs)}]_vars

\* C25: the reconciler lists, adds and deletes rules of priority 999 only;
\* the kernel rules of any other priority are the same before and after
\* every step of a pass.
C25_OnlyPriority999 ==
    [][/\ {r \in krules' : r.Priority # RulePriority}
              = {r \in krules : r.Priority # RulePriority}
       /\ \A r \in getRules(krules) :
             \E k \in krules : k.Priority = RulePriority /\ IPNetString(k.Src) = r.srcIP
                                /\ IPNetString(k.Dst) = r.destinationCIDR /\ k.Table = r.table]_vars

\* A pass added the rule of vrf-a beside a rule of priority 100 with the same
\* source, destination and table, and the pass after the removal of vrf-a
\* deleted it: the rule of priority 100 is all that is left.
C25_Witness ==
    /\ lastVrf.stage = "rules"
    /\ lastVrf.cvrfs = {}
    /\ "vrf-a" \in everDesired
    /\ krules = {ForeignRule}


\* C26: at most one reconcile pass at a time is between reading the kernel's
\* VRF and rule lists and the end of its kernel writes.
C26_PassesMutuallyExclusive == Cardinality({h \in Handlers : handlers[h].pc \in {"vrfs", "rules"}}) <= 1


(***************************************************************************)
(* The Service watcher                                                     *)
(***************************************************************************)
\* the route exporter exports load-balancer IPs
ExportLBIP == cfg.EnableRouteExporter /\ cfg.RouteExporterExportLBIP

\* an address as a host prefix: /32 for IPv4, /128 for IPv6
HostPrefix(ip) ==
    [fam |-> ip.fam, IP |-> ip.ip,
     Mask |-> IF ip.fam = "FAMILY_V4" THEN <<1, 1>> ELSE <<1, 1, 1>>]

\* the routes of the load-balancer IPs: the exporter's table and protocol
LBIPRoutes(k) ==
    {r \in k : r.Table = cfg.RouteExporterTableID
               /\ r.Protocol = cfg.RouteExporterLBIPProtocolID}

\* C28: the handler of a Service with exactly one ingress IP installs the
\* route of that IP as a host prefix, /32 for an IPv4 address and /128 for an
\* IPv6 address, and no other route; for a Service with no ingress IP or with
\* two or more it installs none.
C28_LBIPPrefixEmission ==
    [][(nSvcEvents' = nSvcEvents + 1 /\ lastSvc'.op \in {"add", "update"}) =>
          IF ExportLBIP /\ Len(lastSvc'.svc.ingress) = 1 /\ lastSvc'.svc.ingress[1] # NoIPText
          THEN LET dst == HostPrefix(ParseIP(lastSvc'.svc.ingress[1]))
               IN /\ \E r \in LBIPRoutes(kroutes') : r.Dst = dst
                  /\ \A r \in kroutes' \ kroutes : r.Dst = dst /\ r \in LBIPRoutes(kroutes')
          ELSE kroutes' = kroutes]_vars

\* An IPv4 and an IPv6 ingress IP have their /32 and /128 routes, and the
\* event handled last was of a Service with two ingress IPs.
C28_Witness ==
    /\ ExportLBIP
    /\ \E r \in LBIPRoutes(kroutes) :
          r.Dst = [fam |-> "FAMILY_V4", IP |-> <<1, 1>>, Mask |-> <<1, 1>>]
    /\ \E r \in LBIPRoutes(kroutes) :
          r.Dst = [fam |-> "FAMILY_V6", IP |-> <<1, 1, 0>>, Mask |-> <<1, 1, 1>>]
    /\ lastSvc.op = "update"
    /\ Len(lastSvc.svc.ingress) = 2


\* C27: after any sequence of Service add, update and delete events the
\* routes of the load-balancer partition are the host prefixes of the
\* Services that exist with exactly one ingress IP; the route of a deleted
\* Service is gone.
C27_LBIPRoutesFollowServices ==
    ExportLBIP => {r.Dst : r \in LBIPRoutes(kroutes)} = {HostPrefix(ParseIP(svc.ingress[1])) : svc \in {s \in services : Len(s.ingress) = 1 /\ s.ingress[1] # NoIPText}}

(***************************************************************************)
(* Cancellation, health and the FIB watch (SpecCancel, SpecHealth,         *)
(* SpecWatch).                                                             *)
(***************************************************************************)
\* C33: once the context of the job is cancelled the processor returns, from
\* the select after Iterate only, so that the rows of the iteration under
\* way are handled first; it returns whether or not a RIB change follows.
C33_CancellationTerminates ==
    /\ (ctx = "done") ~> (pc = "returned")
    /\ [][(pc # "returned" /\ pc' = "returned")
            => (pc = "wait" /\ iter = {} /\ ctx = "done")]_vars

\* The processor has written the FIB, was cancelled and has returned with
\* no RIB change pending.
C33_Witness ==
    /\ pc = "returned"
    /\ changes = {}
    /\ fib # {}

\* C34: when the FIB Insert or Delete of the callback returns an error, the
\* processor reports health Degraded with that error, has committed the FIB
\* write transaction, goes on with the next changed row or waits for the
\* next change, and every change pending then is handled in the end.
C34_FIBErrorKeepsProcessorRunning ==
    /\ [][(pc = "write" /\ pc' # "write" /\ FIBWriteErr(fibreject, sel, cur.rt) # "nil")
            => /\ health' = [level |-> "Degraded",
                             err |-> FIBWriteErr(fibreject, sel, cur.rt)]
               /\ fibTxn' = "none"
               /\ iter' = iter \ {cur}
               /\ pc' = (IF iter' = {} THEN "wait" ELSE "iterate")]_vars
    /\ (health.level = "Degraded") ~> (pc = "wait" /\ changes = {})

\* The FIB refuses the best path of a prefix, the processor has handled every
\* change, that of the refused route among them, and its last report, for a
\* change handled after it, is OK.
C34_Witness ==
    /\ pc = "wait"
    /\ changes = {}
    /\ health.level = "OK"
    /\ fib # {}
    /\ \E r \in rib \cap fibreject : selectBest(rib, r).best = r

\* C35 as stated: while an open watch of FIB.All() is held and the RIB insert
\* of a route, or the RIB delete of a route that leaves other routes for the
\* prefix, is committed and not yet taken up by the processor, the watch
\* fires in the end.
C35_RIBChangeFiresFIBWatch_Stated ==
    \A p \in Prefixes :
        (/\ fibWatch.st = "open"
         /\ \E c \in changes :
               /\ c.rt.Prefix = p
               /\ (~c.deleted \/ RowsFor(rib, p) # {}))
            ~> (fibWatch.st = "fired")

\* C35: the same, unless the prefix has lost every RIB row by the time the
\* processor handles the change: the processor commits a FIB Insert for each
\* changed row whose prefix has a RIB row, also when the best path is the
\* FIB entry already, and that write fires the watch.
C35_RIBChangeFiresFIBWatch ==
    \A p \in Prefixes :
        (/\ fibWatch.st = "open"
         /\ \E c \in changes :
               /\ c.rt.Prefix = p
               /\ (~c.deleted \/ RowsFor(rib, p) # {}))
            ~> (fibWatch.st = "fired" \/ RowsFor(rib, p) = {})

\* The watch has fired although the FIB is what the reader saw when it took
\* the watch: the processor has written the best path again after the insert
\* of a second route for the prefix.
C35_Witness ==
    /\ fibWatch.st = "fired"
    /\ fibWatch.fib = fib
    /\ fib # {}
    /\ pc = "wait"
    /\ changes = {}
    /\ \E r1, r2 \in rib : r1.Prefix = r2.Prefix /\ r1 # r2

(***************************************************************************)
(* The FIB as a function of the RIB, and the keys of prefixes (Spec).      *)
(***************************************************************************)
\* C37: at quiescence the FIB is determined by the rows of the RIB, whatever
\* the order of the writes that led to them: it holds, of the RIB rows that
\* share a prefix key, the one of the least administrative distance, and of
\* several such the one first in the order of the index.
C37_BestPathDeterministic ==
    (pc = "wait" /\ changes = {}) =>
        fib = {r \in rib :
                \A q \in rib :
                    PrefixKey(q.Prefix) = PrefixKey(r.Prefix) =>
                        \/ q = r
                        \/ AdminDistance(r.Protocol) < AdminDistance(q.Protocol)
                        \/ /\ AdminDistance(r.Protocol) = AdminDistance(q.Protocol)
                           /\ r.Owner = "ownerA"}

\* Two routes of one prefix and one distance are in the RIB, the one written
\* last is not the FIB entry, and the processor has handled every change.
C37_Witness ==
    /\ pc = "wait"
    /\ changes = {}
    /\ nWrites = MaxWrites
    /\ \E r1, r2 \in rib :
          /\ r1.Prefix = r2.Prefix
          /\ r1.Protocol = r2.Protocol
          /\ r1.Owner # r2.Owner
          /\ r1 \in fib

\* C39: the best path the processor selects for a changed row is a route to
\* the prefix of that row, and the FIB entry it then writes leaves the
\* entries of every other prefix, one of another length on the same address
\* among them, as they were.
C39_DistinctLengthsDistinctRows ==
    [][/\ (pc = "iterate" /\ pc' = "write" /\ sel'.found)
            => sel'.best.Prefix = cur'.rt.Prefix
       /\ (pc = "write" /\ pc' # "write")
            => \A p \in Prefixes \ {cur.rt.Prefix} : RowsFor(fib', p) = RowsFor(fib, p)]_vars

\* C38: the address bytes of a Prefix key are those of the masked network
\* address, so two prefixes of one family and one length whose addresses
\* differ in host bits only have equal keys; and the key of an IPv4Prefix
\* is never the key of an IPv6Prefix.
C38_PrefixKeysCanonical ==
    pk.done =>
        /\ Tail(pk.ka) = IPMask(pk.a.addr, CIDRMask(pk.a.bits, Len(pk.a.addr)))
        /\ (/\ pk.a.type = pk.b.type
            /\ pk.a.bits = pk.b.bits
            /\ IPMask(pk.a.addr, CIDRMask(pk.a.bits, Len(pk.a.addr)))
                 = IPMask(pk.b.addr, CIDRMask(pk.b.bits, Len(pk.b.addr))))
           => pk.ka = pk.kb
        /\ pk.a.type # pk.b.type => pk.ka # pk.kb

(***************************************************************************)
(* The exporter: desired set, VRF device, lastError (SpecExporter,         *)
(* SpecFaults).                                                            *)
(***************************************************************************)
\* C32: the desired set of a pod-CIDR pass is the set of the entries of the
\* node's plural list when that list is not empty, otherwise the set of the
\* singular pod CIDR alone, and the empty set when the node has no pod CIDR
\* at all.
C32_PodCIDRDesiredSet ==
    lastPass.kind = "node" =>
        lastPass.desired =
            IF lastPass.in.PodCIDRs # <<>>
            THEN {lastPass.in.PodCIDRs[i] : i \in DOMAIN lastPass.in.PodCIDRs}
            ELSE IF lastPass.in.PodCIDR # EmptyText
            THEN {lastPass.in.PodCIDR}
            ELSE {}

\* C31: a pass of the exporter that finds no link of its VRF name creates
\* one VRF device of that name, bound to the pass's table, and leaves it up;
\* a pass that finds the link creates no device and keeps the link's index,
\* leaves the link up, and changes nothing of the links when it was up;
\* the routes the pass installs are on that one device.
C31_EnsureVrfIdempotent ==
    [][nEvents' = nEvents + 1 =>
         LET lb == lastPass'.kind = "UpdateOrDeleteLBIPRoutes"
             name == IF lb THEN cfg.LBIPVrfName ELSE cfg.PodCIDRVrfName
             table == IF lb THEN cfg.LBIPTableID ELSE cfg.PodCIDRTableID
             had == LinkByName(klinks, name)
             has == LinkByName(klinks', name)
         IN /\ Cardinality(has) = 1
            /\ \A l \in has : l.OperState = "up"
            /\ had = {} =>
                  /\ klinks' = klinks \cup has
                  /\ \A l \in has : l.Table = table /\ \A o \in klinks : o.Index # l.Index
            /\ had # {} =>
                  /\ klinks' \ has = klinks \ had
                  /\ \A l \in has : \E o \in had : o.Index = l.Index /\ o.Table = l.Table
                  /\ (\A o \in had : o.OperState = "up") => klinks' = klinks
            /\ \A r \in kroutes' \ kroutes : \E l \in has : r.LinkIndex = l.Index]_vars

\* The load-balancer VRF, which no initial state has, is there once and up
\* after two passes of UpdateOrDeleteLBIPRoutes, the second of which
\* installed a route on it.
C31_Witness ==
    /\ nEvents = MaxEvents
    /\ LinkByName(klinks, cfg.PodCIDRVrfName) = {}
    /\ lastPass.kind = "UpdateOrDeleteLBIPRoutes"
    /\ lastPass.err = "nil"
    /\ \E l \in klinks :
          /\ LinkByName(klinks, cfg.LBIPVrfName) = {l}
          /\ l.OperState = "up"
          /\ l.Table = cfg.LBIPTableID
          /\ \E r \in kroutes : r.LinkIndex = l.Index /\ r.Table = cfg.LBIPTableID

\* C40: a pass of the exporter that ends without error leaves both
\* lastError fields as they were, and a pass that fails writes its own
\* field only; so the error of a failed pass is still there after every
\* later pass without error.
C40_LastErrorOnlyOnFailure ==
    [][nEvents' = nEvents + 1 =>
         /\ lastPass'.err = "nil" =>
               UNCHANGED <<podCIDRSyncerLastError, lbIPSyncerLastError>>
         /\ lastPass'.err # "nil" =>
               IF lastPass'.kind = "UpdateOrDeleteLBIPRoutes"
               THEN lbIPSyncerLastError' = lastPass'.err /\ UNCHANGED podCIDRSyncerLastError
               ELSE podCIDRSyncerLastError' = lastPass'.err /\ UNCHANGED lbIPSyncerLastError]_vars

\* A pod-CIDR pass has failed and the pod-CIDR pass after it, which
\* installed a route, has not: the error is still stored.
C40_Witness ==
    /\ nEvents = MaxEvents
    /\ podCIDRSyncerLastError # "nil"
    /\ lbIPSyncerLastError = "nil"
    /\ lastPass.kind \in {"node", "UpdateOrDeletePodCIDRRoutes"}
    /\ lastPass.err = "nil"
    /\ \E i \in DOMAIN lastPass.calls : lastPass.calls[i].op = "RouteReplace"

(***************************************************************************)
(* The rule loops of reconcileVrfs (SpecVrf)                               *)
(***************************************************************************)
\* C36: the rules a pass hands to RuleAdd are desired rules that were not
\* among the rules of priority 999 it listed, the rules it hands to RuleDel
\* are listed rules that are not desired, and a pass whose desired rules
\* are the listed ones calls neither.
C36_RuleReconciliationIsDiff ==
    lastVrf.stage = "rules" =>
        LET want == {NewRule(ParseCIDR(r.srcIP).net, ParseCIDR(r.destinationCIDR).net,
                             r.table, RulePriority) : r \in desiredRules(lastVrf.cvrfs)}
        IN /\ lastVrf.ruleAdds \subseteq want \ lastVrf.listed
           /\ lastVrf.ruleDels \subseteq lastVrf.listed \ want
           /\ want = lastVrf.listed => (lastVrf.ruleAdds = {} /\ lastVrf.ruleDels = {})

====
